---------------------------- MODULE Spec2Model ----------------------------
(***************************************************************************)
(* Model of the playbook PDF pipeline of metodic.education:                *)
(*   src/src/lib/playbook-pdf.tsx          (txt, phaseOf, bullets,         *)
(*                                          pickIcon, PlaybookPdfDocument) *)
(*   src/src/app/playbooks/[slug]/download/route.ts  (getPlaybook, GET)    *)
(*                                                                         *)
(* A string is a sequence of tokens.  A token is a whitespace character    *)
(* (" ", "\t", "\n") or a run of non-whitespace characters; the category   *)
(* is spelled one character per token because pickIcon looks inside it.    *)
(* An optional value (T | null | undefined) is a sequence of length 0      *)
(* (absent) or 1 (present).                                                *)
(***************************************************************************)
EXTENDS Integers, Sequences, FiniteSets, TLC

VARIABLES
    row,        \* the store's answer for the requested slug (None: no published row)
    pc,         \* position of the GET handler
    playbook,   \* getPlaybook's result: None or Some(PlaybookPdfData)
    doc,        \* the document PlaybookPdfDocument built (<<>> before / on failure)
    renderErr,  \* TRUE when renderPlaybookPdf rejected
    logoReads,  \* number of readFileSync calls on the logo asset
    response,   \* the response GET returned (status 0: none yet)
    html,       \* what the printable HTML page produced (None: not requested)
    firstName,  \* signup form: useState('')
    lastName,   \* signup form: useState('')
    email,      \* signup form: useState('')
    loading,    \* signup form: useState(false)
    message,    \* signup form: useState('')
    messageType,\* signup form: useState('')
    request,    \* signup form: the insert in flight (None: no request)
    formPc      \* signup form: position of handleSubmit

formVars ==
    <<firstName, lastName, email, loading, message, messageType, request, formPc>>

vars ==
    <<row, pc, playbook, doc, renderErr, logoReads, response, html, formVars>>

---------------------------------------------------------------------------
(* Bounds of the model *)

MaxSteps == 4
MaxOrder == 2
MaxDetails == 2
MaxSources == 22
MaxExtraSheets == 1
MaxEmailLen == 5

---------------------------------------------------------------------------
(* Optional values *)

None == <<>>
Some(x) == <<x>>

\* a null where an array element (an object) is expected
Null == [null |-> TRUE]

\* JS truthiness of an optional string: null, undefined and "" are falsy.
Truthy(o) == o # None /\ o[1] # <<>>

\* value || fallback on an optional string
OrElse(o, fallback) == IF Truthy(o) THEN o[1] ELSE fallback

\* obj?.field on an optional object
Get(o, f) == IF o = None THEN None ELSE o[1][f]

---------------------------------------------------------------------------
(* Strings *)

WhiteSpace == {" ", "\t", "\n"}

RECURSIVE DropWs(_)
DropWs(s) ==
    IF s # <<>> /\ Head(s) \in WhiteSpace THEN DropWs(Tail(s)) ELSE s

\* s.replace(/\s+/g, ' ')
RECURSIVE Collapse(_)
Collapse(s) ==
    IF s = <<>> THEN <<>>
    ELSE IF Head(s) \in WhiteSpace THEN <<" ">> \o Collapse(DropWs(Tail(s)))
    ELSE <<Head(s)>> \o Collapse(Tail(s))

RECURSIVE DropWsEnd(_)
DropWsEnd(s) ==
    IF s # <<>> /\ s[Len(s)] \in WhiteSpace
    THEN DropWsEnd(SubSeq(s, 1, Len(s) - 1)) ELSE s

\* s.trim()
Trim(s) == DropWsEnd(DropWs(s))

\* a literal of the source: its words joined by single spaces
RECURSIVE Lit(_)
Lit(words) ==
    IF Len(words) <= 1 THEN words
    ELSE <<Head(words), " ">> \o Lit(Tail(words))

\* mutant of txt: the operands of || are swapped
txtPrefersFallback(value, fallback) ==
    LET clean == Trim(Collapse(OrElse(value, <<>>)))
    IN  IF fallback # <<>> THEN fallback ELSE clean

\* txt(value, fallback = '')
txt(value, fallback) ==
    LET clean == Trim(Collapse(OrElse(value, <<>>)))
    IN  IF clean # <<>> THEN clean ELSE fallback

---------------------------------------------------------------------------
(* Icon selection *)

UpperCase == <<"A","B","C","D","E","F","G","H","I","J","K","L","M",
               "N","O","P","Q","R","S","T","U","V","W","X","Y","Z">>
LowerCase == <<"a","b","c","d","e","f","g","h","i","j","k","l","m",
               "n","o","p","q","r","s","t","u","v","w","x","y","z">>

LowerChar(c) ==
    IF \E i \in 1..Len(UpperCase) : UpperCase[i] = c
    THEN LowerCase[CHOOSE i \in 1..Len(UpperCase) : UpperCase[i] = c]
    ELSE c

\* s.toLowerCase()
ToLowerCase(s) == [i \in 1..Len(s) |-> LowerChar(s[i])]

\* s.includes(k)
Includes(s, k) ==
    \E i \in 0..(Len(s) - Len(k)) : SubSeq(s, i + 1, i + Len(k)) = k

\* Object.entries(TOPIC_ICONS), in insertion order: <<key, icon>>
TOPIC_ICONS ==
    << <<<<"d","e","f","a","u","l","t">>, "compass">>,
       <<<<"c","o","l","l","a","b","o","r","a","t","i","o","n">>, "users">>,
       <<<<"s","t","r","a","t","e","g","y">>, "trending-up">>,
       <<<<"t","r","u","s","t">>, "shield">>,
       <<<<"c","o","m","m","u","n","i","c","a","t","i","o","n">>, "message-circle">>,
       <<<<"i","n","n","o","v","a","t","i","o","n">>, "lightbulb">>,
       <<<<"d","e","c","i","s","i","o","n","-","m","a","k","i","n","g">>, "target">>,
       <<<<"a","l","i","g","n","m","e","n","t">>, "target">>,
       <<<<"c","h","a","n","g","e"," ","m","a","n","a","g","e","m","e","n","t">>, "refresh-cw">>,
       <<<<"m","e","e","t","i","n","g","s">>, "activity">>,
       <<<<"e","n","g","a","g","e","m","e","n","t">>, "activity">>,
       <<<<"l","e","a","r","n","i","n","g">>, "book-open">>,
       <<<<"o","n","b","o","a","r","d","i","n","g">>, "book-open">> >>

\* mutant of pickIcon: the category is not lower-cased
pickIconCaseSensitive(category) ==
    LET key  == Trim(category)
        hits == {i \in 1..Len(TOPIC_ICONS) : Includes(key, TOPIC_ICONS[i][1])}
    IN  IF hits = {} THEN TOPIC_ICONS[1][2]
        ELSE TOPIC_ICONS[CHOOSE i \in hits : \A j \in hits : i <= j][2]

pickIcon(category) ==
    LET key == Trim(ToLowerCase(category))
        hits == {i \in 1..Len(TOPIC_ICONS) : Includes(key, TOPIC_ICONS[i][1])}
    IN  IF hits = {} THEN TOPIC_ICONS[1][2]
        ELSE TOPIC_ICONS[CHOOSE i \in hits : \A j \in hits : i <= j][2]

---------------------------------------------------------------------------
(* Input records.  A record is built from a kind for every field: absent,   *)
(* empty (""), blank (whitespace only), messy (needs normalising) or clean. *)
(* Field values carry the field's name, so a value shown in the document    *)
(* tells where it came from.                                                *)

Kinds == {"absent", "empty", "blank", "messy", "clean"}

\* optional string fields
TextTags ==
    {"summary", "target_audience", "estimated_duration",
     "gf.transformation_horizon", "gf.cadence", "gf.review_checkpoint",
     "ext.title", "ext.subtitle", "ext.executive_summary",
     "ca.context", "ca.stakes", "roadmap.governance_and_review",
     "cta.why_metodic",
     "theory.concept", "theory.explanation", "theory.application",
     "detail.objective", "detail.deep_explanation",
     "detail.facilitator_guidance", "detail.practical_example",
     "detail.risks_and_mitigations", "detail.success_metrics",
     "step.phase", "step.time_window", "step.intervention_duration",
     "step.owner", "step.success_signal", "step.challenge_title",
     "step.method_name",
     "source.title", "source.url", "source.publisher",
     "source.relevance_note"}

\* optional string[] fields, and the theory_foundations array
ListTags ==
    {"ca.symptoms", "ca.root_causes", "roadmap.first_30_days",
     "roadmap.days_31_60", "roadmap.days_61_90", "cta.benefits",
     "ext.theory_foundations"}

\* required string fields
RequiredTags ==
    {"title", "organizational_challenge", "step.title",
     "step.intervention", "step.script_template"}

Tags == TextTags \cup ListTags \cup RequiredTags

\* slot 1 is the first element of an array, slot 2 the second, slot 0
\* every later element and every field outside arrays
Slots == {0, 1, 2}
SlotOf(i) == IF i \in {1, 2} THEN i ELSE 0

Uniform(kind) == [t \in Tags, i \in Slots |-> kind]

\* an optional string of kind K[tag, slot of i]
Val(K, tag, i) ==
    LET kind == K[tag, SlotOf(i)]
        n    == ToString(i)
    IN  CASE kind = "absent" -> None
          [] kind = "empty"  -> Some(<<>>)
          [] kind = "blank"  -> Some(<<" ", "\t">>)
          [] kind = "messy"  -> Some(<<" ", tag, "\t", " ", n, "\n">>)
          [] OTHER           -> Some(<<tag, " ", n>>)

\* a required string: always present and non-blank
Req(K, tag, i) ==
    IF K[tag, SlotOf(i)] = "messy"
    THEN <<" ", tag, "\t", " ", ToString(i), "\n">>
    ELSE <<tag, " ", ToString(i)>>

\* an optional string[]
ListVal(K, tag) ==
    LET kind == K[tag, 0]
    IN  CASE kind = "absent" -> None
          [] kind = "empty"  -> Some(<<>>)
          [] kind = "blank"  -> Some(<< <<" ">> >>)
          [] kind = "messy"  -> Some(<< <<" ", tag, " ", " ", "1">>, <<tag, " ", "2">> >>)
          [] OTHER           -> Some(<< <<tag, " ", "1">>, <<tag, " ", "2">> >>)

\* an optional sub-object: null unless a field is set (or hollow: present
\* with every field absent)
Object(hollow, r) ==
    IF ~hollow /\ \A f \in DOMAIN r : r[f] = None THEN None ELSE Some(r)

MkStep(K, i, order) ==
    [order |-> order,
     title |-> Req(K, "step.title", i),
     phase |-> Val(K, "step.phase", i),
     time_window |-> Val(K, "step.time_window", i),
     intervention_duration |-> Val(K, "step.intervention_duration", i),
     owner |-> Val(K, "step.owner", i),
     success_signal |-> Val(K, "step.success_signal", i),
     challenge_title |-> Val(K, "step.challenge_title", i),
     method_name |-> Val(K, "step.method_name", i),
     intervention |-> Req(K, "step.intervention", i),
     script_template |-> Req(K, "step.script_template", i)]

MkDetail(K, j, stepOrder) ==
    [step_order |-> stepOrder,
     objective |-> Val(K, "detail.objective", j),
     deep_explanation |-> Val(K, "detail.deep_explanation", j),
     facilitator_guidance |-> Val(K, "detail.facilitator_guidance", j),
     practical_example |-> Val(K, "detail.practical_example", j),
     risks_and_mitigations |-> Val(K, "detail.risks_and_mitigations", j),
     success_metrics |-> Val(K, "detail.success_metrics", j)]

MkTheory(K) ==
    LET kind == K["ext.theory_foundations", 0]
    IN  CASE kind = "absent" -> None
          [] kind = "empty"  -> Some(<<>>)
          [] OTHER ->
               Some([i \in 1..2 |->
                       [concept |-> Val(K, "theory.concept", i),
                        explanation |-> Val(K, "theory.explanation", i),
                        application |-> Val(K, "theory.application", i)]])

MkSource(K, j) ==
    [title |-> Val(K, "source.title", j),
     url |-> Val(K, "source.url", j),
     publisher |-> Val(K, "source.publisher", j),
     relevance_note |-> Val(K, "source.relevance_note", j)]

\* dOrders: None or Some(list of optional step_order); nSrc: None or Some(n)
MkExtended(K, hollow, dOrders, nSrc) ==
    Object(hollow,
      [title |-> Val(K, "ext.title", 0),
       subtitle |-> Val(K, "ext.subtitle", 0),
       executive_summary |-> Val(K, "ext.executive_summary", 0),
       challenge_analysis |->
           Object(hollow,
             [context |-> Val(K, "ca.context", 0),
              symptoms |-> ListVal(K, "ca.symptoms"),
              root_causes |-> ListVal(K, "ca.root_causes"),
              stakes |-> Val(K, "ca.stakes", 0)]),
       theory_foundations |-> MkTheory(K),
       detailed_steps |->
           IF dOrders = None THEN None
           ELSE Some([j \in 1..Len(dOrders[1]) |-> MkDetail(K, j, dOrders[1][j])]),
       implementation_roadmap |->
           Object(hollow,
             [first_30_days |-> ListVal(K, "roadmap.first_30_days"),
              days_31_60 |-> ListVal(K, "roadmap.days_31_60"),
              days_61_90 |-> ListVal(K, "roadmap.days_61_90"),
              governance_and_review |-> Val(K, "roadmap.governance_and_review", 0)]),
       final_metodic_cta |->
           Object(hollow,
             [why_metodic |-> Val(K, "cta.why_metodic", 0),
              benefits |-> ListVal(K, "cta.benefits")]),
       sources |->
           IF nSrc = None THEN None
           ELSE Some([j \in 1..nSrc[1] |-> MkSource(K, j)])])

\* the row the store returns for a slug; its sequence column is JSON and
\* may hold something that is not an array (None)
MkRow(K, hollow, category, orders, dOrders, nSrc) ==
    [slug |-> <<"slug">>,
     title |-> Req(K, "title", 0),
     category |-> category,
     organizational_challenge |-> Req(K, "organizational_challenge", 0),
     summary |-> Val(K, "summary", 0),
     target_audience |-> Val(K, "target_audience", 0),
     estimated_duration |-> Val(K, "estimated_duration", 0),
     sequence |->
         IF orders = None THEN None
         ELSE Some([i \in 1..Len(orders[1]) |-> MkStep(K, i, orders[1][i])]),
     extended_printable |-> MkExtended(K, hollow, dOrders, nSrc),
     generated_from |->
         Object(hollow,
           [transformation_horizon |-> Val(K, "gf.transformation_horizon", 0),
            cadence |-> Val(K, "gf.cadence", 0),
            review_checkpoint |-> Val(K, "gf.review_checkpoint", 0)])]

---------------------------------------------------------------------------
(* Default strings of the page builders *)

DefaultHorizon ==
    Lit(<<"6-10", "weeks">>)

DefaultCadence ==
    Lit(<<"weekly", "cadence">>)

\* mutant of DefaultCoverDuration: the default of the step meta strip
DefaultCoverDurationOfStep ==
    Lit(<<"45-90", "min">>)

DefaultCoverDuration ==
    Lit(<<"45-90", "min", "per", "session">>)

DefaultAudience ==
    Lit(<<"Leaders", "and", "facilitators">>)

DefaultCheckpoint ==
    Lit(<<"Week", "4">>)

DefaultExecutiveSummary ==
    Lit(<<"This", "playbook", "provides", "a", "multi-phase",
          "transformation", "sequence.", "It", "combines", "concrete",
          "interventions,", "facilitation", "scripts,", "clear",
          "ownership,", "and", "success", "signals", "so", "teams",
          "can", "move", "from", "diagnosis", "to", "embedded",
          "behavior", "change.">>)

DefaultStepDuration ==
    Lit(<<"45-90", "min">>)

DefaultOwner ==
    Lit(<<"Session", "lead">>)

DefaultRisks ==
    Lit(<<"Track", "blockers", "immediately", "and", "assign", "one",
          "mitigation", "owner.">>)

GenericPrepare ==
    Lit(<<"Prepare", "the", "objective", "and", "participants",
          "before", "the", "session.">>)

GenericClose ==
    Lit(<<"End", "with", "explicit", "owners,", "deadlines,", "and",
          "a", "checkpoint", "date.">>)

DefaultChallengeTitle ==
    Lit(<<"Related", "challenge">>)

DefaultMethodName ==
    Lit(<<"Context-specific", "method">>)

DefaultSuccessSignal ==
    Lit(<<"Observable", "progress", "in", "decision", "quality", "and",
          "follow-through.">>)

DefaultWhyMetodic ==
    Lit(<<"Use", "Metodic.io", "to", "convert", "this", "playbook",
          "into", "practical", "session", "designs,", "facilitation",
          "assets,", "and", "repeatable", "intervention", "workflows",
          "&mdash;", "faster", "than", "starting", "from", "scratch.">>)

DefaultSourceLabel ==
    Lit(<<"Source">>)

DefaultSourceUrl ==
    Lit(<<"No", "URL", "provided">>)

DefaultSymptoms ==
    << Lit(<<"Low", "alignment", "across", "teams">>),
       Lit(<<"Repeated", "decision", "loops">>),
       Lit(<<"Action", "follow-through", "gaps">>) >>

DefaultRootCauses ==
    << Lit(<<"Unclear", "decision", "rights">>),
       Lit(<<"Weak", "meeting", "structures">>),
       Lit(<<"Inconsistent", "accountability">>) >>

DefaultFirst30 ==
    << Lit(<<"Define", "the", "playbook", "owner", "and", "facilitation",
          "support", "roles.">>),
       Lit(<<"Schedule", "all", "interventions", "with", "a", "clear",
          "cadence.">>) >>

Default31to60 ==
    << Lit(<<"Track", "success", "signals", "per", "intervention", "and",
          "resolve", "blockers", "quickly.">>) >>

Default61to90 ==
    << Lit(<<"Run", "checkpoint", "review", "and", "adapt", "the", "next",
          "intervention", "cycle.">>) >>

DefaultBenefits ==
    << Lit(<<"Design", "intervention", "sessions", "with", "proven",
          "structures", "and", "templates.">>),
       Lit(<<"Generate", "facilitator", "scripts", "and", "participant",
          "materials", "automatically.">>),
       Lit(<<"Standardize", "quality", "across", "teams,", "projects,",
          "and", "initiatives.">>) >>

DefaultPrinciples ==
    << [concept |-> Some(Lit(<<"Sequence", "over", "single", "event">>)),
        explanation |-> Some(Lit(<<"Change", "quality", "improves", "when", "interventions",
          "are", "staged", "and", "reinforced", "over", "time",
          "rather", "than", "attempted", "in", "a", "single",
          "workshop.">>)),
        application |-> Some(Lit(<<"Build", "rhythm", "and", "checkpointing", "into", "every",
          "playbook.">>))],
       [concept |-> Some(Lit(<<"Role", "clarity">>)),
        explanation |-> Some(Lit(<<"Named", "ownership", "prevents", "drift", "and",
          "ambiguity", "after", "each", "session.">>)),
        application |-> Some(Lit(<<"Assign", "a", "responsible", "owner", "to", "every",
          "intervention", "step.">>))],
       [concept |-> Some(Lit(<<"Observable", "signals">>)),
        explanation |-> Some(Lit(<<"Teams", "sustain", "change", "when", "progress", "is",
          "visible", "and", "measurable.">>)),
        application |-> Some(Lit(<<"Define", "one", "success", "indicator", "per", "phase.">>))] >>

---------------------------------------------------------------------------
(* Helpers of the page builders *)

Min(a, b) == IF a <= b THEN a ELSE b

\* one text node of a page: the slot it fills and the text shown
Item(slot, text) == [slot |-> slot, text |-> text]
\* mutant of phaseOf: the default is picked by the step's order
phaseOfByOrder(step, index) ==
    IF Truthy(step.phase) THEN step.phase[1]
    ELSE IF step.order - 1 = 0 THEN <<"Diagnose">>
    ELSE IF step.order - 1 = 1 THEN <<"Align">>
    ELSE IF step.order - 1 = 2 THEN <<"Pilot">>
    ELSE <<"Embed">>

\* phaseOf(step, index): index is the 0-based array index
phaseOf(step, index) ==
    IF Truthy(step.phase) THEN step.phase[1]
    ELSE IF index = 0 THEN <<"Diagnose">>
    ELSE IF index = 1 THEN <<"Align">>
    ELSE IF index = 2 THEN <<"Pilot">>
    ELSE <<"Embed">>

\* mutant of bullets: an empty array is not replaced by the fallback
bulletsKeepsEmpty(slot, items, fallback) ==
    LET list == IF items # None THEN items[1] ELSE fallback
    IN  [i \in 1..Len(list) |-> Item(slot, list[i])]

\* bullets(items, fallback): one bullet row per element, shown as is
bullets(slot, items, fallback) ==
    LET list == IF items # None /\ Len(items[1]) > 0 THEN items[1] ELSE fallback
    IN  [i \in 1..Len(list) |-> Item(slot, list[i])]

\* mutant of Page: a second image of a page reads the logo again, and the
\* read fails
PageReadsLogoAgain(kind, key, sectionLabel, icon, logos, pageNumber, body) ==
    [kind |-> kind, key |-> key, sectionLabel |-> sectionLabel, icon |-> icon,
     logos |-> [i \in 1..Len(logos) |->
                  IF i > 1 THEN "https://metodic.io/metodic-logo.png" ELSE logos[i]],
     pageNumber |-> pageNumber, body |-> body]

\* <Page>: a page of the document.  pageNumber says whether the page has
\* the "n / total" footer; logos are the <Image src> of the page, in order.
Page(kind, key, sectionLabel, icon, logos, pageNumber, body) ==
    [kind |-> kind, key |-> key, sectionLabel |-> sectionLabel, icon |-> icon,
     logos |-> logos, pageNumber |-> pageNumber, body |-> body]

\* mutant of ContentPage: the footer has no page number
ContentPageNoNumber(kind, key, sectionLabel, logoUri, children) ==
    Page(kind, key, sectionLabel, "", <<logoUri>>, FALSE, children)

\* ContentPage: shared header (logo, section label) and numbered footer
ContentPage(kind, key, sectionLabel, logoUri, children) ==
    Page(kind, key, sectionLabel, "", <<logoUri>>, TRUE, children)
\* mutant of FindDetail: the detail at the step's array position
FindDetailByIndex(ext, step, index) ==
    LET ds   == Get(ext, "detailed_steps")
        list == IF ds = None THEN <<>> ELSE ds[1]
    IN  IF index + 1 <= Len(list) THEN Some(list[index + 1]) ELSE None

\* mutant of FindDetail: the last matching entry is taken
FindDetailLast(ext, step, index) ==
    LET ds   == Get(ext, "detailed_steps")
        list == IF ds = None THEN <<>> ELSE ds[1]
        hits == {j \in 1..Len(list) : list[j].step_order = Some(step.order)}
    IN  IF hits = {} THEN None
        ELSE Some(list[CHOOSE j \in hits : \A k \in hits : j >= k])

\* ext?.detailed_steps?.find((d) => d.step_order === step.order)
FindDetail(ext, step, index) ==
    LET ds   == Get(ext, "detailed_steps")
        list == IF ds = None THEN <<>> ELSE ds[1]
        hits == {j \in 1..Len(list) : list[j].step_order = Some(step.order)}
    IN  IF hits = {} THEN None
        ELSE Some(list[CHOOSE j \in hits : \A k \in hits : j <= k])

---------------------------------------------------------------------------
(* Page builders *)

CoverPage(p, logoUri, generatedOn) ==
    LET ext == p.extended_printable
        gf  == p.generated_from
    IN  Page("cover", <<>>, <<>>, pickIcon(p.category), <<logoUri>>, FALSE,
          << Item("cover.badge", Lit(<<"Extended", "Playbook">>)),
             Item("cover.title", txt(Get(ext, "title"), p.title)),
             Item("cover.subtitle",
                  txt(Get(ext, "subtitle"),
                      OrElse(p.summary, p.organizational_challenge))),
             Item("chip.category", p.category),
             Item("chip.horizon",
                  txt(Get(gf, "transformation_horizon"), DefaultHorizon)),
             Item("chip.cadence", txt(Get(gf, "cadence"), DefaultCadence)),
             Item("chip.duration",
                  txt(p.estimated_duration, DefaultCoverDuration)),
             Item("info.audience", txt(p.target_audience, DefaultAudience)),
             Item("info.interventions", <<ToString(Len(p.sequence))>>),
             Item("info.checkpoint",
                  txt(Get(gf, "review_checkpoint"), DefaultCheckpoint)),
             Item("info.generated", generatedOn),
             Item("cover.footer", Lit(<<"Made", "with", "Metodic">>)) >>)

SummaryPage(p, logoUri) ==
    LET ext == p.extended_printable
        ca  == Get(ext, "challenge_analysis")
    IN  ContentPage("summary", <<>>, <<"Overview">>, logoUri,
          << Item("heading", Lit(<<"Executive", "Summary">>)),
             Item("summary.text",
                  txt(Get(ext, "executive_summary"), DefaultExecutiveSummary)),
             Item("heading", Lit(<<"Challenge", "Context">>)),
             Item("summary.context",
                  txt(Get(ca, "context"), p.organizational_challenge)),
             Item("heading", Lit(<<"Common", "Symptoms">>)) >>
          \o bullets("summary.symptom", Get(ca, "symptoms"), DefaultSymptoms)
          \o << Item("heading", Lit(<<"Root", "Causes">>)) >>
          \o bullets("summary.root_cause", Get(ca, "root_causes"), DefaultRootCauses)
          \o (IF Truthy(Get(ca, "stakes"))
              THEN << Item("heading.stakes", Lit(<<"Why", "It", "Matters">>)),
                      Item("summary.stakes", Get(ca, "stakes")[1]) >>
              ELSE <<>>))

PrincipleCard(item, idx) ==
    << Item("principle.concept",
            txt(item.concept, <<"Principle", " ", ToString(idx + 1)>>)),
       Item("principle.explanation", txt(item.explanation, <<>>)) >>
    \o (IF Truthy(item.application)
        THEN << Item("principle.application",
                     <<"Application:", " ">> \o item.application[1]) >>
        ELSE <<>>)

RECURSIVE Cards(_, _)
Cards(list, idx) ==
    IF idx >= Len(list) THEN <<>>
    ELSE PrincipleCard(list[idx + 1], idx) \o Cards(list, idx + 1)

PrinciplesPage(p, logoUri) ==
    LET tf   == Get(p.extended_printable, "theory_foundations")
        list == IF tf # None /\ Len(tf[1]) > 0 THEN tf[1] ELSE DefaultPrinciples
    IN  ContentPage("principles", <<>>, <<"Foundations">>, logoUri,
          << Item("heading", Lit(<<"Design", "Principles">>)),
             Item("principles.intro",
                  Lit(<<"Each", "principle", "below", "informs", "how", "the",
                        "interventions", "are", "sequenced.", "They", "combine",
                        "facilitation", "discipline", "with", "behavior-change",
                        "mechanics.">>)) >>
          \o Cards(list, 0))

\* one step page; index is the 0-based array index of step in p.sequence
StepPage(p, step, index, logoUri) ==
    LET ext    == p.extended_printable
        detail == FindDetail(ext, step, index)
    IN  ContentPage("step", <<ToString(step.order), "-">> \o step.title,
          <<"Step", " ", ToString(index + 1), " ", "of", " ",
            ToString(Len(p.sequence))>>,
          logoUri,
          << Item("step.title", txt(Get(detail, "objective"), step.title)),
             Item("step.phase", phaseOf(step, index)),
             Item("step.timing",
                  txt(step.time_window, <<"Week", " ", ToString(index + 1)>>)),
             Item("step.duration",
                  txt(step.intervention_duration,
                      OrElse(p.estimated_duration, DefaultStepDuration))),
             Item("step.owner", txt(step.owner, DefaultOwner)),
             Item("heading", Lit(<<"Intervention", "Goal">>)),
             Item("step.goal",
                  txt(Get(detail, "deep_explanation"), step.intervention)),
             Item("heading", Lit(<<"Facilitator", "Script">>)),
             Item("step.script",
                  txt(Get(detail, "facilitator_guidance"), step.script_template)),
             Item("heading", Lit(<<"Execution", "Guidance">>)) >>
          \o (IF Truthy(Get(detail, "practical_example"))
              THEN << Item("guidance.example",
                           <<"Example:", " ">> \o detail[1].practical_example[1]),
                      Item("guidance.risks",
                           <<"Risks", " ", "+", " ", "mitigations:", " ">>
                           \o txt(detail[1].risks_and_mitigations, DefaultRisks)) >>
              ELSE << Item("guidance.generic", GenericPrepare),
                      Item("guidance.generic", GenericClose) >>)
          \o << Item("heading", Lit(<<"Applied", "Context">>)),
                Item("context.challenge",
                     <<"Challenge:", " ">>
                     \o txt(step.challenge_title, DefaultChallengeTitle)),
                Item("context.method",
                     <<"Method:", " ">>
                     \o txt(step.method_name, DefaultMethodName)),
                Item("heading", Lit(<<"Success", "Signal">>)),
                Item("step.success",
                     txt(Get(detail, "success_metrics"),
                         OrElse(step.success_signal, DefaultSuccessSignal))) >>)
\* mutants of StepPages: the last step is left out; the steps are laid out
\* in reverse
StepPagesDropLast(p, logoUri) ==
    [i \in 1..(Len(p.sequence) - 1) |-> StepPage(p, p.sequence[i], i - 1, logoUri)]

StepPagesReversed(p, logoUri) ==
    [i \in 1..Len(p.sequence) |->
        StepPage(p, p.sequence[Len(p.sequence) + 1 - i], i - 1, logoUri)]

\* mutant of StepPages: the label counts by the step's order field
StepPagesLabelledByOrder(p, logoUri) ==
    [i \in 1..Len(p.sequence) |->
        [StepPage(p, p.sequence[i], i - 1, logoUri) EXCEPT
            !.sectionLabel = <<"Step", " ", ToString(p.sequence[i].order), " ",
                               "of", " ", ToString(Len(p.sequence))>>]]

\* playbook.sequence.map((step, index) => <ContentPage ...>)
StepPages(p, logoUri) ==
    [i \in 1..Len(p.sequence) |-> StepPage(p, p.sequence[i], i - 1, logoUri)]

RoadmapPage(p, logoUri) ==
    LET rm == Get(p.extended_printable, "implementation_roadmap")
    IN  ContentPage("roadmap", <<>>, <<"Implementation">>, logoUri,
          << Item("heading", Lit(<<"90-Day", "Implementation", "Roadmap">>)),
             Item("roadmap.intro",
                  Lit(<<"Use", "this", "cadence", "to", "move", "from", "launch",
                        "to", "durable", "practice.">>)),
             Item("roadmap.card", Lit(<<"Days", "1", "&ndash;", "30">>)) >>
          \o bullets("roadmap.first_30_days", Get(rm, "first_30_days"), DefaultFirst30)
          \o << Item("roadmap.card", Lit(<<"Days", "31", "&ndash;", "60">>)) >>
          \o bullets("roadmap.days_31_60", Get(rm, "days_31_60"), Default31to60)
          \o << Item("roadmap.card", Lit(<<"Days", "61", "&ndash;", "90">>)) >>
          \o bullets("roadmap.days_61_90", Get(rm, "days_61_90"), Default61to90)
          \o (IF Truthy(Get(rm, "governance_and_review"))
              THEN << Item("heading.governance",
                           Lit(<<"Governance", "and", "Review">>)),
                      Item("roadmap.governance",
                           Get(rm, "governance_and_review")[1]) >>
              ELSE <<>>))

\* ext.sources.slice(0, 20)
SourceLimit == 20

SourceLine(source) ==
    Item("source.line",
         <<"&bull;", " ">>
         \o txt(source.title, OrElse(source.publisher, DefaultSourceLabel))
         \o <<":", " ">>
         \o txt(source.url, DefaultSourceUrl)
         \o (IF Truthy(source.relevance_note)
             THEN <<" ", "&mdash;", " ">> \o source.relevance_note[1]
             ELSE <<>>))
\* mutant of SourcesBlock: every entry is listed
SourcesBlockNoSlice(ext) ==
    LET src == Get(ext, "sources")
    IN  IF src # None /\ Len(src[1]) > 0
        THEN << Item("heading.sources", Lit(<<"Research", "Sources">>)) >>
             \o [i \in 1..Len(src[1]) |-> SourceLine(src[1][i])]
        ELSE <<>>

\* the sources block of the final page
SourcesBlock(ext) ==
    LET src == Get(ext, "sources")
    IN  IF src # None /\ Len(src[1]) > 0
        THEN << Item("heading.sources", Lit(<<"Research", "Sources">>)) >>
             \o [i \in 1..Min(SourceLimit, Len(src[1])) |-> SourceLine(src[1][i])]
        ELSE <<>>

FinalPage(p, logoUri) ==
    LET ext == p.extended_printable
        cta == Get(ext, "final_metodic_cta")
    IN  Page("final", <<>>, Lit(<<"Next", "Steps">>), "", <<logoUri, logoUri>>, TRUE,
          << Item("heading", Lit(<<"Scale", "This", "with", "Metodic.io">>)),
             Item("cta.why", txt(Get(cta, "why_metodic"), DefaultWhyMetodic)),
             Item("heading", Lit(<<"How", "Metodic", "helps">>)) >>
          \o bullets("cta.benefit", Get(cta, "benefits"), DefaultBenefits)
          \o << Item("cta.link", <<"Explore:", " ", "https://metodic.io">>) >>
          \o SourcesBlock(ext)
          \o << Item("final.mark", Lit(<<"Made", "with", "Metodic">>)) >>)

\* the <Document> PlaybookPdfDocument returns: its pages in order
PlaybookPdfDocument(p, logoUri, generatedOn) ==
    << CoverPage(p, logoUri, generatedOn),
       SummaryPage(p, logoUri),
       PrinciplesPage(p, logoUri) >>
    \o StepPages(p, logoUri)
    \o << RoadmapPage(p, logoUri), FinalPage(p, logoUri) >>

\* the footer's render callback: `${pageNumber} / ${totalPages}`
PageFooter(pageNumber, totalPages) ==
    <<ToString(pageNumber), " ", "/", " ", ToString(totalPages)>>

\* the page each sheet belongs to: a <Page> wraps, page k takes
\* 1 + extra[k] sheets
RECURSIVE SheetPages(_, _)
SheetPages(extra, k) ==
    IF k > Len(extra) THEN <<>>
    ELSE [i \in 1..(1 + extra[k]) |-> k] \o SheetPages(extra, k + 1)

\* the sheets a document is laid out on.  The header and the footer of a
\* page are fixed: they repeat on every sheet of the page, and the
\* footer's callback gets the number of the sheet and the number of sheets.
Layout(d, extra) ==
    LET of == SheetPages(extra, 1)
    IN  [i \in 1..Len(of) |->
            [page   |-> of[i],
             header |-> IF d[of[i]].sectionLabel # <<>>
                        THEN <<d[of[i]].logos[1], d[of[i]].sectionLabel>>
                        ELSE <<>>,
             footer |-> IF d[of[i]].pageNumber
                        THEN PageFooter(i, Len(of))
                        ELSE <<>>]]

\* the elements of a list that .find(pred) visits: up to the first match
Visited(list, hits) ==
    IF hits = {} THEN 1..Len(list)
    ELSE 1..(CHOOSE j \in hits : \A k \in hits : j <= k)

\* mutant of ComponentThrows: ext.detailed_steps and ext.sources are read
\* without optional chaining, so a null extended_printable throws
ComponentThrowsOnNullExtended(p) ==
    \/ p.extended_printable = None
    \/ \E i \in 1..Len(p.sequence) : p.sequence[i] = Null

\* PlaybookPdfDocument throws a TypeError: a property is read off null.
\* Every read of an optional object goes through ?. or a guard; the reads
\* left are those of array elements (step, item, d, source).
ComponentThrows(p) ==
    LET ext  == p.extended_printable
        tf   == Get(ext, "theory_foundations")
        ds   == Get(ext, "detailed_steps")
        src  == Get(ext, "sources")
        list == IF ds = None THEN <<>> ELSE ds[1]
    IN  \/ \E i \in 1..Len(p.sequence) : p.sequence[i] = Null
        \/ tf # None /\ \E i \in 1..Len(tf[1]) : tf[1][i] = Null
        \/ \E i \in 1..Len(p.sequence) :
              /\ \A k \in 1..i : p.sequence[k] # Null
              /\ LET hits == {j \in 1..Len(list) :
                                list[j] # Null
                                /\ list[j].step_order = Some(p.sequence[i].order)}
                 IN  \E j \in Visited(list, hits) : list[j] = Null
        \/ src # None
           /\ \E i \in 1..Min(SourceLimit, Len(src[1])) : src[1][i] = Null

---------------------------------------------------------------------------
(* The rows of the store the model draws from *)

\* tuples over S of length 0..n
RECURSIVE TuplesUpTo(_, _)
TuplesUpTo(S, n) ==
    IF n = 0 THEN {<<>>}
    ELSE LET shorter == TuplesUpTo(S, n - 1)
         IN  shorter \cup {Append(t, x) : t \in {u \in shorter : Len(u) = n - 1}, x \in S}

TeamCollaborationWorkshop ==
    <<"T","e","a","m"," ","C","o","l","l","a","b","o","r","a","t","i","o","n"," ","W","o","r","k","s","h","o","p">>

\* words a category is put together from: every table key, and two
\* strings holding none
CategoryWords ==
    { <<>>,
      <<"D","e","f","a","u","l","t">>,
      <<"C","o","l","l","a","b","o","r","a","t","i","o","n">>,
      <<"S","t","r","a","t","e","g","y">>,
      <<"T","r","u","s","t">>,
      <<"C","o","m","m","u","n","i","c","a","t","i","o","n">>,
      <<"I","n","n","o","v","a","t","i","o","n">>,
      <<"D","e","c","i","s","i","o","n","-","M","a","k","i","n","g">>,
      <<"A","l","i","g","n","m","e","n","t">>,
      <<"C","h","a","n","g","e"," ","M","a","n","a","g","e","m","e","n","t">>,
      <<"M","e","e","t","i","n","g","s">>,
      <<"E","n","g","a","g","e","m","e","n","t">>,
      <<"L","e","a","r","n","i","n","g">>,
      <<"O","n","b","o","a","r","d","i","n","g">>,
      <<"Q","u","a","r","t","e","r","l","y"," ","R","e","v","i","e","w">> }

UpperChar(c) ==
    IF \E i \in 1..Len(LowerCase) : LowerCase[i] = c
    THEN UpperCase[CHOOSE i \in 1..Len(LowerCase) : LowerCase[i] = c]
    ELSE c

Recase(how, s) ==
    CASE how = "upper"  -> [i \in 1..Len(s) |-> UpperChar(s[i])]
      [] how = "lower"  -> [i \in 1..Len(s) |-> LowerChar(s[i])]
      [] how = "padded" -> <<" ", "\t">> \o s \o <<" ">>
      [] OTHER          -> s

Categories ==
    {Recase(how, a \o <<" ">> \o b) :
        a \in CategoryWords,
        b \in {<<>>, <<"D","e","f","a","u","l","t">>,
               <<"C","o","l","l","a","b","o","r","a","t","i","o","n">>,
               <<"T","r","u","s","t">>,
               <<"O","n","b","o","a","r","d","i","n","g">>},
        how \in {"asis", "upper", "lower", "padded"}}

OrderTuples == TuplesUpTo(1..MaxOrder, MaxSteps)

DetailOrderLists ==
    {None} \cup
    {Some(t) : t \in TuplesUpTo({None} \cup {Some(n) : n \in 1..(MaxOrder + 1)},
                                MaxDetails)}

\* every sequence of orders: bare steps without details, and populated
\* steps with two details
SequenceRows ==
    {MkRow(Uniform(c[1]), FALSE, TeamCollaborationWorkshop, Some(orders), c[2], None) :
        c \in {<<"absent", None>>, <<"clean", Some(<<Some(2), Some(1)>>)>>},
        orders \in OrderTuples}

\* every list of details, against one step, two steps in reverse order and
\* two steps of the same order
DetailRows ==
    {MkRow(Uniform("clean"), FALSE, TeamCollaborationWorkshop, Some(orders), dOrders, None) :
        orders \in {<<1>>, <<2, 1>>, <<1, 1>>}, dOrders \in DetailOrderLists}

\* every length of sources
SourceRows ==
    {MkRow(Uniform(kind), FALSE, TeamCollaborationWorkshop, Some(<<1>>), None, nSrc) :
        kind \in {"absent", "clean", "messy"},
        nSrc \in {None} \cup {Some(n) : n \in 0..MaxSources}}

\* one field of one kind, every other field absent or every other field set
FieldRows ==
    {MkRow([Uniform(base) EXCEPT ![tag, slot] = kind], hollow,
           TeamCollaborationWorkshop, Some(<<2, 1, 3>>),
           Some(<<Some(1), Some(2), Some(3)>>), Some(2)) :
        base \in {"absent", "clean"}, kind \in Kinds, hollow \in BOOLEAN,
        tag \in Tags, slot \in Slots}

\* steps with and without a phase, at every index, orders reversed
PhaseRows ==
    {MkRow([Uniform("absent") EXCEPT !["step.phase", 1] = a,
                                     !["step.phase", 2] = b,
                                     !["step.phase", 0] = c],
           FALSE, TeamCollaborationWorkshop,
           Some([i \in 1..MaxSteps |-> MaxSteps + 1 - i]), None, None) :
        a \in {"absent", "clean"}, b \in {"absent", "empty", "clean"},
        c \in {"absent", "clean"}}

CategoryRows ==
    {MkRow(Uniform("absent"), FALSE, category, Some(<<1>>), None, None) :
        category \in Categories}

\* a sequence column that is not an array
NoArrayRows ==
    {MkRow(Uniform(kind), FALSE, TeamCollaborationWorkshop, None, None, None) :
        kind \in {"absent", "clean"}}

\* two details of the same step_order, the first lacking a field (or all
\* fields) that the second has
DuplicateDetailRows ==
    {MkRow([t \in Tags, i \in Slots |->
               IF i = 1 /\ t \in lacking THEN kind ELSE "clean"],
           FALSE, TeamCollaborationWorkshop, Some(<<1, 2>>),
           Some(<<Some(1), Some(1)>>), None) :
        kind \in {"absent", "empty", "blank"},
        lacking \in
            {{t} : t \in {"detail.objective", "detail.deep_explanation",
                          "detail.facilitator_guidance", "detail.practical_example",
                          "detail.risks_and_mitigations", "detail.success_metrics"}}
            \cup {{"detail.objective", "detail.deep_explanation",
                   "detail.facilitator_guidance", "detail.practical_example",
                   "detail.risks_and_mitigations", "detail.success_metrics"}}}

\* rows whose JSON columns hold a null where an object is expected
MalformedRows ==
    LET r == MkRow(Uniform("clean"), FALSE, TeamCollaborationWorkshop,
                   Some(<<1, 2>>), Some(<<Some(1), Some(2)>>), Some(2))
        e == r.extended_printable[1]
        withExt(f, v) ==
            [r EXCEPT !.extended_printable = Some([e EXCEPT ![f] = Some(v)])]
    IN  { [r EXCEPT !.sequence = Some(<<r.sequence[1][1], Null>>)],
          withExt("theory_foundations", <<Null>>),
          withExt("detailed_steps", <<Null, e.detailed_steps[1][1]>>),
          withExt("detailed_steps", <<e.detailed_steps[1][1], Null>>),
          withExt("sources", <<e.sources[1][1], Null>>) }

Rows ==
    SequenceRows \cup DetailRows \cup SourceRows \cup FieldRows \cup PhaseRows
    \cup CategoryRows \cup NoArrayRows \cup MalformedRows
    \cup DuplicateDetailRows

\* the values of new Date().toLocaleDateString('en-US', ...) at render time
Dates ==
    { Lit(<<"November", "4,", "2026">>), Lit(<<"November", "5,", "2026">>) }

---------------------------------------------------------------------------
(* The download route *)

NoResponse ==
    [status |-> 0, contentType |-> "", fileName |-> <<>>, body |-> <<>>,
     error |-> ""]

\* mutant of getLogoDataUri: the catch branch returns no reference
getLogoDataUriNoFallback(readOk) ==
    IF readOk THEN "data:image/png;base64" ELSE ""

\* getLogoDataUri(): readFileSync succeeds or throws
getLogoDataUri(readOk) ==
    IF readOk THEN "data:image/png;base64"
    ELSE "https://metodic.io/metodic-logo.png"

\* getPlaybook(slug): the row normalised, or null
getPlaybook(data, error) ==
    IF error \/ data = None THEN None
    ELSE Some([data[1] EXCEPT
                 !.sequence = IF @ = None THEN <<>> ELSE @[1]])

\* the form as first rendered: the initial values of its useState hooks
FormInit ==
    /\ firstName = <<>>
    /\ lastName = <<>>
    /\ email = <<>>
    /\ loading = FALSE
    /\ message = <<>>
    /\ messageType = ""
    /\ request = None
    /\ formPc = "idle"

Init ==
    /\ row \in {None} \cup {Some(r) : r \in Rows}
    /\ pc = "start"
    /\ playbook = None
    /\ doc = <<>>
    /\ renderErr = FALSE
    /\ logoReads = 0
    /\ response = NoResponse
    /\ html = None
    /\ FormInit

\* const playbook = await getPlaybook(slug)
GetPlaybook ==
    /\ pc = "start"
    /\ \E error \in BOOLEAN : playbook' = getPlaybook(row, error)
    /\ pc' = "looked"
    /\ UNCHANGED <<row, doc, renderErr, logoReads, response>>
    /\ UNCHANGED <<html, formVars>>

\* if (!playbook) return 404
RespondNotFound ==
    /\ pc = "looked"
    /\ playbook = None
    /\ response' = [NoResponse EXCEPT !.status = 404,
                                      !.contentType = "application/json",
                                      !.error = "Playbook not found"]
    /\ pc' = "done"
    /\ UNCHANGED <<row, playbook, doc, renderErr, logoReads>>
    /\ UNCHANGED <<html, formVars>>

\* mutant of RenderPdf: the sources are cut with splice, which shortens
\* the array of the record
RenderPdfSplicesSources ==
    /\ pc = "looked"
    /\ playbook # None
    /\ ~ComponentThrows(playbook[1])
    /\ \E readOk \in BOOLEAN, generatedOn \in Dates :
          doc' = PlaybookPdfDocument(playbook[1], getLogoDataUri(readOk), generatedOn)
    /\ LET ext == playbook[1].extended_printable
           src == Get(ext, "sources")
       IN  playbook' =
              IF src # None /\ Len(src[1]) > SourceLimit
              THEN Some([playbook[1] EXCEPT !.extended_printable =
                           Some([ext[1] EXCEPT !.sources =
                                   Some(SubSeq(src[1], SourceLimit + 1, Len(src[1])))])])
              ELSE playbook
    /\ logoReads' = logoReads + 1
    /\ renderErr' = FALSE
    /\ pc' = "rendered"
    /\ UNCHANGED <<row, response>>
    /\ UNCHANGED <<html, formVars>>

\* mutant of RenderPdf: a key of the document comes from a source that
\* differs between two renders
RenderPdfRandomKey ==
    /\ pc = "looked"
    /\ playbook # None
    /\ ~ComponentThrows(playbook[1])
    /\ \E readOk \in BOOLEAN, generatedOn \in Dates, random \in {"a", "b"} :
          doc' = [PlaybookPdfDocument(playbook[1], getLogoDataUri(readOk), generatedOn)
                    EXCEPT ![2].key = <<random>>]
    /\ logoReads' = logoReads + 1
    /\ renderErr' = FALSE
    /\ pc' = "rendered"
    /\ UNCHANGED <<row, playbook, response>>
    /\ UNCHANGED <<html, formVars>>

\* await renderPlaybookPdf(playbook) resolves
RenderPdf ==
    /\ pc = "looked"
    /\ playbook # None
    /\ ~ComponentThrows(playbook[1])
    /\ \E readOk \in BOOLEAN, generatedOn \in Dates :
          doc' = PlaybookPdfDocument(playbook[1], getLogoDataUri(readOk), generatedOn)
    /\ logoReads' = logoReads + 1
    /\ renderErr' = FALSE
    /\ pc' = "rendered"
    /\ UNCHANGED <<row, playbook, response>>
    /\ UNCHANGED <<html, formVars>>

\* mutant of RenderThrows: the render is started without the null check
RenderThrowsWithoutRecord ==
    /\ pc = "looked"
    /\ doc' = <<>>
    /\ \E n \in {0, 1} : logoReads' = logoReads + n
    /\ renderErr' = TRUE
    /\ pc' = "rendered"
    /\ UNCHANGED <<row, playbook, response>>
    /\ UNCHANGED <<html, formVars>>

\* await renderPlaybookPdf(playbook) rejects: the renderer threw, before
\* or after the component ran
RenderThrows ==
    /\ pc = "looked"
    /\ playbook # None
    /\ doc' = <<>>
    /\ \E n \in {0, 1} : logoReads' = logoReads + n
    /\ renderErr' = TRUE
    /\ pc' = "rendered"
    /\ UNCHANGED <<row, playbook, response>>
    /\ UNCHANGED <<html, formVars>>

\* return new NextResponse(buffer, { headers })
RespondPdf ==
    /\ pc = "rendered"
    /\ ~renderErr
    /\ response' = [NoResponse EXCEPT
                      !.status = 200,
                      !.contentType = "application/pdf",
                      !.fileName = OrElse(Some(playbook[1].slug), <<"playbook">>)
                                   \o <<"-extended.pdf">>,
                      !.body = doc]
    /\ pc' = "done"
    /\ UNCHANGED <<row, playbook, doc, renderErr, logoReads>>
    /\ UNCHANGED <<html, formVars>>
\* mutant of RespondFailed: the failure is answered like a success
RespondFailedWithPdf ==
    /\ pc = "rendered"
    /\ renderErr
    /\ response' = [NoResponse EXCEPT !.status = 200,
                                      !.contentType = "application/pdf",
                                      !.body = doc]
    /\ pc' = "done"
    /\ UNCHANGED <<row, playbook, doc, renderErr, logoReads>>
    /\ UNCHANGED <<html, formVars>>

\* catch (err): 500
RespondFailed ==
    /\ pc = "rendered"
    /\ renderErr
    /\ response' = [NoResponse EXCEPT !.status = 500,
                                      !.contentType = "application/json",
                                      !.error = "PDF generation failed"]
    /\ pc' = "done"
    /\ UNCHANGED <<row, playbook, doc, renderErr, logoReads>>
    /\ UNCHANGED <<html, formVars>>

Next ==
    \/ GetPlaybook
    \/ RespondNotFound
    \/ RenderPdf
    \/ RenderThrows
    \/ RespondPdf
    \/ RespondFailed

Spec == Init /\ [][Next]_vars

\* the requests for the playbooks that differ in their category only
InitIcon ==
    /\ Init
    /\ row \in {Some(r) : r \in CategoryRows} \cup
               {Some(MkRow(Uniform("absent"), FALSE, TeamCollaborationWorkshop,
                           Some(<<1>>), None, None))}

SpecIcon == InitIcon /\ [][Next]_vars

---------------------------------------------------------------------------
(* The printable HTML page of the same playbook *)

\* getPlaybook of the printable page: the same query and normalisation
getPlaybookPrintable(data, error) ==
    IF error \/ data = None THEN None
    ELSE Some([data[1] EXCEPT
                 !.sequence = IF @ = None THEN <<>> ELSE @[1]])

\* mutant of normalizePhase: the default is picked by the step's order
normalizePhaseByOrder(step, index) ==
    IF Truthy(step.phase) THEN step.phase[1]
    ELSE IF step.order = 1 THEN <<"Diagnose">>
    ELSE IF step.order = 2 THEN <<"Align">>
    ELSE IF step.order = 3 THEN <<"Pilot">>
    ELSE <<"Embed">>

\* normalizePhase(step, index)
normalizePhase(step, index) ==
    IF Truthy(step.phase) THEN step.phase[1]
    ELSE IF index = 0 THEN <<"Diagnose">>
    ELSE IF index = 1 THEN <<"Align">>
    ELSE IF index = 2 THEN <<"Pilot">>
    ELSE <<"Embed">>

\* extended?.detailed_steps?.find((item) => item.step_order === step.order)
extendedStep(extended, step) ==
    LET ds   == Get(extended, "detailed_steps")
        list == IF ds = None THEN <<>> ELSE ds[1]
        hits == {j \in 1..Len(list) : list[j].step_order = Some(step.order)}
    IN  IF hits = {} THEN None
        ELSE Some(list[CHOOSE j \in hits : \A k \in hits : j <= k])

\* the page throws a TypeError: a property is read off a null array
\* element (step.challenge_id, item.concept, item.step_order, source.url)
PrintableThrows(p) ==
    LET ext  == p.extended_printable
        tf   == Get(ext, "theory_foundations")
        ds   == Get(ext, "detailed_steps")
        src  == Get(ext, "sources")
        list == IF ds = None THEN <<>> ELSE ds[1]
    IN  \/ \E i \in 1..Len(p.sequence) : p.sequence[i] = Null
        \/ tf # None /\ \E i \in 1..Len(tf[1]) : tf[1][i] = Null
        \/ \E i \in 1..Len(p.sequence) :
              /\ p.sequence[i] # Null
              /\ LET hits == {j \in 1..Len(list) :
                                list[j] # Null
                                /\ list[j].step_order = Some(p.sequence[i].order)}
                 IN  \E j \in Visited(list, hits) : list[j] = Null
        \/ src # None /\ \E i \in 1..Len(src[1]) : src[1][i] = Null

\* one section per step: its heading, its phase badge and the detail its
\* texts are read from
StepSections(p) ==
    [i \in 1..Len(p.sequence) |->
        LET step   == p.sequence[i]
            detail == extendedStep(p.extended_printable, step)
        IN  [key    |-> <<ToString(step.order), "-">> \o step.title,
             title  |-> OrElse(Get(detail, "objective"), step.title),
             phase  |-> <<"Phase:", " ">> \o normalizePhase(step, i - 1),
             detail |-> detail]]

\* PrintablePlaybookPage({ params }): lookup, notFound() or the page
PrintablePlaybookPage ==
    /\ html = None
    /\ \E error \in BOOLEAN :
          LET found == getPlaybookPrintable(row, error)
          IN  html' = Some(IF found = None
                           THEN [status |-> "notFound", sections |-> <<>>]
                           ELSE IF PrintableThrows(found[1])
                           THEN [status |-> "error", sections |-> <<>>]
                           ELSE [status |-> "ok",
                                 sections |-> StepSections(found[1])])
    /\ UNCHANGED <<row, pc, playbook, doc, renderErr, logoReads, response>>
    /\ UNCHANGED formVars

\* the records both renderers are given: phases, details and malformed rows
PrintableRows ==
    PhaseRows \cup DetailRows \cup DuplicateDetailRows
    \cup MalformedRows \cup NoArrayRows
    \cup {MkRow([Uniform("clean") EXCEPT !["step.phase", slot] = kind], FALSE,
                TeamCollaborationWorkshop, Some(<<2, 1, 3>>),
                Some(<<Some(1), Some(2), Some(3)>>), None) :
             kind \in Kinds, slot \in Slots}

InitPrintable ==
    /\ Init
    /\ row \in {None} \cup {Some(r) : r \in PrintableRows}

NextPrintable ==
    \/ Next
    \/ PrintablePlaybookPage

SpecPrintable == InitPrintable /\ [][NextPrintable]_vars

---------------------------------------------------------------------------
(* The email signup form *)

\* what a visitor can enter: a name at once, an address key by key
NameInputs == {<<>>, <<" ">>, <<" ", "A", " ", "B", " ">>}

EmailAlphabet == {"A", "@", ".", " "}

\* the values one keystroke away from the address in the input
EmailInputs(current) ==
    {Append(current, c) : c \in IF Len(current) < MaxEmailLen
                                THEN EmailAlphabet ELSE {}}
    \cup {SubSeq(current, 1, Len(current) - 1)}

\* mutant of isValidEmail: the dot of the domain is not required
isValidEmailWithoutDot(address) ==
    \E i \in 2..(Len(address) - 1) :
       /\ address[i] = "@"
       /\ \A k \in (1..Len(address)) \ {i} :
             address[k] \notin WhiteSpace \cup {"@"}

\* /^[^\s@]+@[^\s@]+\.[^\s@]+$/.test(email)
isValidEmail(address) ==
    \E i \in 2..Len(address), j \in 1..(Len(address) - 1) :
       /\ address[i] = "@"
       /\ j >= i + 2
       /\ address[j] = "."
       /\ \A k \in (1..Len(address)) \ {i} :
             address[k] \notin WhiteSpace \cup {"@"}

EnterFirstName == <<"Please enter your first name.">>
EnterLastName == <<"Please enter your last name.">>
EnterEmail == <<"Please enter your email.">>
EnterValidEmail == <<"Please enter a valid email address.">>
OnTheList == <<"You are on the list. You will receive updates and news.">>
AlreadyOnTheList == <<"You are already on the updates list.">>
CouldNotAdd == <<"Could not add you to updates right now. Please try again.">>

InitForm ==
    /\ row = None
    /\ pc = "start"
    /\ playbook = None
    /\ doc = <<>>
    /\ renderErr = FALSE
    /\ logoReads = 0
    /\ response = NoResponse
    /\ html = None
    /\ FormInit

routeVars == <<row, pc, playbook, doc, renderErr, logoReads, response, html>>

\* onChange of the three inputs, which are disabled while loading; the
\* result of an earlier submission no longer describes the fields
SetFirstName ==
    /\ ~loading
    /\ \E value \in NameInputs : firstName' = value
    /\ formPc' = "idle"
    /\ UNCHANGED <<lastName, email, loading, message, messageType, request>>
    /\ UNCHANGED routeVars

SetLastName ==
    /\ ~loading
    /\ \E value \in NameInputs : lastName' = value
    /\ formPc' = "idle"
    /\ UNCHANGED <<firstName, email, loading, message, messageType, request>>
    /\ UNCHANGED routeVars

SetEmail ==
    /\ ~loading
    /\ \E value \in EmailInputs(email) : email' = value
    /\ formPc' = "idle"
    /\ UNCHANGED <<firstName, lastName, loading, message, messageType, request>>
    /\ UNCHANGED routeVars

\* mutant of HandleSubmit: the address is checked before the names
HandleSubmitChecksEmailFirst ==
    /\ ~loading
    /\ LET cleanEmail     == ToLowerCase(Trim(email))
           cleanFirstName == Trim(firstName)
           cleanLastName  == Trim(lastName)
           reject(text) ==
               /\ messageType' = "error"
               /\ message' = text
               /\ formPc' = "returned"
               /\ UNCHANGED <<loading, request>>
       IN  IF cleanEmail = <<>> THEN reject(EnterEmail)
           ELSE IF ~isValidEmail(cleanEmail) THEN reject(EnterValidEmail)
           ELSE IF cleanFirstName = <<>> THEN reject(EnterFirstName)
           ELSE IF cleanLastName = <<>> THEN reject(EnterLastName)
           ELSE /\ loading' = TRUE
                /\ message' = <<>>
                /\ messageType' = ""
                /\ request' = Some([email      |-> cleanEmail,
                                    first_name |-> cleanFirstName,
                                    last_name  |-> cleanLastName])
                /\ formPc' = "awaiting"
    /\ UNCHANGED <<firstName, lastName, email>>
    /\ UNCHANGED routeVars

\* handleSubmit up to its await (the button is disabled while loading)
HandleSubmit ==
    /\ ~loading
    /\ LET cleanEmail     == ToLowerCase(Trim(email))
           cleanFirstName == Trim(firstName)
           cleanLastName  == Trim(lastName)
           reject(text) ==
               /\ messageType' = "error"
               /\ message' = text
               /\ formPc' = "returned"
               /\ UNCHANGED <<loading, request>>
       IN  IF cleanFirstName = <<>> THEN reject(EnterFirstName)
           ELSE IF cleanLastName = <<>> THEN reject(EnterLastName)
           ELSE IF cleanEmail = <<>> THEN reject(EnterEmail)
           ELSE IF ~isValidEmail(cleanEmail) THEN reject(EnterValidEmail)
           ELSE /\ loading' = TRUE
                /\ message' = <<>>
                /\ messageType' = ""
                /\ request' = Some([email      |-> cleanEmail,
                                    first_name |-> cleanFirstName,
                                    last_name  |-> cleanLastName])
                /\ formPc' = "awaiting"
    /\ UNCHANGED <<firstName, lastName, email>>
    /\ UNCHANGED routeVars

\* the await resolves with no error
InsertSucceeds ==
    /\ formPc = "awaiting"
    /\ request' = None
    /\ loading' = FALSE
    /\ firstName' = <<>>
    /\ lastName' = <<>>
    /\ email' = <<>>
    /\ messageType' = "success"
    /\ message' = OnTheList
    /\ formPc' = "settled"
    /\ UNCHANGED routeVars

\* the await resolves with error.code === '23505'
InsertDuplicate ==
    /\ formPc = "awaiting"
    /\ request' = None
    /\ loading' = FALSE
    /\ messageType' = "success"
    /\ message' = AlreadyOnTheList
    /\ formPc' = "settled"
    /\ UNCHANGED <<firstName, lastName, email>>
    /\ UNCHANGED routeVars

\* the await resolves with another error
InsertFails ==
    /\ formPc = "awaiting"
    /\ request' = None
    /\ loading' = FALSE
    /\ messageType' = "error"
    /\ message' = CouldNotAdd
    /\ formPc' = "settled"
    /\ UNCHANGED <<firstName, lastName, email>>
    /\ UNCHANGED routeVars

\* the await rejects: handleSubmit has no try, so the exception leaves it
\* and no statement after the await runs
InsertRejects ==
    /\ formPc = "awaiting"
    /\ request' = None
    /\ formPc' = "aborted"
    /\ UNCHANGED <<firstName, lastName, email, loading, message, messageType>>
    /\ UNCHANGED routeVars

InsertSettles ==
    \/ InsertSucceeds
    \/ InsertDuplicate
    \/ InsertFails
    \/ InsertRejects

NextForm ==
    \/ SetFirstName
    \/ SetLastName
    \/ SetEmail
    \/ HandleSubmit
    \/ InsertSucceeds
    \/ InsertDuplicate
    \/ InsertFails
    \/ InsertRejects

SpecForm == InitForm /\ [][NextForm]_vars

\* the request is answered or fails in the end
SpecFormLive == SpecForm /\ WF_vars(InsertSettles)

---------------------------------------------------------------------------
(* Vocabulary of the properties *)

\* renderPlaybookPdf has just returned a document
Rendered == pc = "rendered" /\ ~renderErr

P == playbook[1]
N == Len(P.sequence)

\* the logo reference and the date the document in hand was built with
DocLogo == doc[1].logos[1]
DocDate ==
    doc[1].body[CHOOSE i \in 1..Len(doc[1].body) :
                    doc[1].body[i].slot = "info.generated"].text

\* the texts a page shows in a slot, in order
RECURSIVE SlotTexts(_, _)
SlotTexts(body, slot) ==
    IF body = <<>> THEN <<>>
    ELSE (IF Head(body).slot = slot THEN <<Head(body).text>> ELSE <<>>)
         \o SlotTexts(Tail(body), slot)

\* the one text a page shows in a slot
SlotText(page, slot) == SlotTexts(page.body, slot)[1]

\* the page built for the step at 1-based position k
StepPageAt(k) == doc[3 + k]

Details(p) ==
    LET ds == Get(p.extended_printable, "detailed_steps")
    IN  IF ds = None THEN <<>> ELSE ds[1]

NonBlank(text) == Trim(text) # <<>>

---------------------------------------------------------------------------
(* C1: page count *)

\* C1 as stated: a record whose sequence has length N is rendered as
\* exactly N + 6 pages.
C1_PageCountIsNPlus6 ==
    Rendered => Len(doc) = N + 6

\* C1 amended: a record whose sequence has length N (N >= 0) is rendered as
\* exactly N + 5 pages (cover, summary, principles, N steps, roadmap,
\* final); of these exactly N are step pages, none when the sequence is
\* empty.
C1_PageCountIsNPlus5 ==
    Rendered =>
        /\ Len(doc) = N + 5
        /\ Cardinality({i \in 1..Len(doc) : doc[i].kind = "step"}) = N

C1_Witness ==
    /\ Rendered
    /\ N = 0
    /\ Len(doc) = 5
    /\ SlotText(doc[1], "info.interventions") = <<"0">>

---------------------------------------------------------------------------
(* C2: page order *)

\* C2: the pages are Cover, Summary, Principles, one step page per element
\* of sequence in array order (the k-th step page carries the key and the
\* "Step k of N" label of sequence[k]), Roadmap, Final.
C2_PageOrder ==
    Rendered =>
        /\ [i \in 1..Len(doc) |-> doc[i].kind]
             = <<"cover", "summary", "principles">>
               \o [k \in 1..N |-> "step"]
               \o <<"roadmap", "final">>
        /\ \A k \in 1..N :
              /\ StepPageAt(k).key
                   = <<ToString(P.sequence[k].order), "-">> \o P.sequence[k].title
              /\ StepPageAt(k).sectionLabel
                   = <<"Step", " ", ToString(k), " ", "of", " ", ToString(N)>>
        /\ \A i \in 1..Len(doc) :
              doc[i].kind = "step" => 3 < i /\ i < Len(doc) - 1

C2_Witness ==
    /\ Rendered
    /\ N >= 3
    /\ P.sequence[1].order > P.sequence[2].order
    /\ doc[4].kind = "step" /\ doc[N + 4].kind = "roadmap"

---------------------------------------------------------------------------
(* C3: a detail is matched by step_order *)

DetailTags ==
    {"detail.objective", "detail.deep_explanation",
     "detail.facilitator_guidance", "detail.practical_example",
     "detail.risks_and_mitigations", "detail.success_metrics"}

\* the text shows a field of the detail at array position j
FromDetail(text, j) ==
    \E t \in DetailTags : Includes(Collapse(text), <<t, " ", ToString(j)>>)

\* the record without the detail at array position j
RemoveDetail(p, j) ==
    LET ds == Details(p)
    IN  [p EXCEPT !.extended_printable =
            Some([@[1] EXCEPT !.detailed_steps =
                    Some(SubSeq(ds, 1, j - 1) \o SubSeq(ds, j + 1, Len(ds)))])]

Matches(d, step) == d.step_order = Some(step.order)

\* C3: a step page shows a field of a detail only if that detail's
\* step_order equals the step's order, wherever the two sit in their
\* arrays; a detail matching no step changes nothing in the document; a
\* step no detail matches is rendered from its base fields.
C3_DetailMatchedByStepOrder ==
    Rendered =>
        /\ \A k \in 1..N : \A j \in 1..Len(Details(P)) :
              \A b \in 1..Len(StepPageAt(k).body) :
                  FromDetail(StepPageAt(k).body[b].text, j)
                      => Matches(Details(P)[j], P.sequence[k])
        /\ \A j \in 1..Len(Details(P)) :
              (\A k \in 1..N : ~Matches(Details(P)[j], P.sequence[k]))
                  => PlaybookPdfDocument(RemoveDetail(P, j), DocLogo, DocDate) = doc
        /\ \A k \in 1..N :
              (\A j \in 1..Len(Details(P)) : ~Matches(Details(P)[j], P.sequence[k]))
                  => /\ SlotText(StepPageAt(k), "step.title") = P.sequence[k].title
                     /\ SlotText(StepPageAt(k), "step.goal") = P.sequence[k].intervention
                     /\ SlotText(StepPageAt(k), "step.script")
                          = P.sequence[k].script_template
                     /\ SlotText(StepPageAt(k), "step.success")
                          = OrElse(P.sequence[k].success_signal, DefaultSuccessSignal)
                     /\ SlotTexts(StepPageAt(k).body, "guidance.example") = <<>>

\* a detail at array position 2 applied to the step at position 1, a
\* detail matching no step, and a step without a detail
C3_Witness ==
    /\ Rendered
    /\ N = 2 /\ Len(Details(P)) = 2
    /\ Matches(Details(P)[2], P.sequence[1])
    /\ FromDetail(SlotText(StepPageAt(1), "step.title"), 2)
    /\ \A k \in 1..N : ~Matches(Details(P)[1], P.sequence[k])
    /\ \A j \in 1..2 : ~Matches(Details(P)[j], P.sequence[2])
    /\ P.sequence[1].order = 2

---------------------------------------------------------------------------
(* C4: the phase default is positional *)

PhaseByPosition == <<"Diagnose", "Align", "Pilot", "Embed">>

---------------------------------------------------------------------------
(* C5: no mandatory slot is blank *)

MandatorySlots ==
    {"cover.title", "cover.subtitle", "chip.category", "chip.horizon",
     "chip.cadence", "chip.duration", "info.audience", "info.interventions",
     "info.checkpoint", "info.generated",
     "summary.text", "summary.context", "summary.symptom", "summary.root_cause",
     "principle.concept", "principle.explanation",
     "step.title", "step.phase", "step.timing", "step.duration", "step.owner",
     "step.goal", "step.script", "step.success",
     "roadmap.first_30_days", "roadmap.days_31_60", "roadmap.days_61_90",
     "cta.why", "cta.benefit"}

RequiredPresent(p) ==
    /\ NonBlank(p.title) /\ NonBlank(p.category)
    /\ NonBlank(p.organizational_challenge)
    /\ \A i \in 1..Len(p.sequence) :
          /\ NonBlank(p.sequence[i].title)
          /\ NonBlank(p.sequence[i].intervention)
          /\ NonBlank(p.sequence[i].script_template)

\* C5: when the required strings are non-blank, every mandatory text slot
\* of every page is a non-empty, non-blank string, whichever optional
\* fields are absent, empty or blank.
C5_NoBlankMandatorySlot ==
    (Rendered /\ RequiredPresent(P)) =>
        \A i \in 1..Len(doc) : \A b \in 1..Len(doc[i].body) :
            doc[i].body[b].slot \in MandatorySlots => NonBlank(doc[i].body[b].text)

---------------------------------------------------------------------------
(* C6: a blank value is rendered like an absent one *)

Blank == Some(<<" ", "\t">>)

EmptyExtended ==
    [title |-> None, subtitle |-> None, executive_summary |-> None,
     challenge_analysis |-> None, theory_foundations |-> None,
     detailed_steps |-> None, implementation_roadmap |-> None,
     final_metodic_cta |-> None, sources |-> None]

EmptyObject(sub) ==
    CASE sub = "challenge_analysis" ->
           [context |-> None, symptoms |-> None, root_causes |-> None,
            stakes |-> None]
      [] sub = "implementation_roadmap" ->
           [first_30_days |-> None, days_31_60 |-> None, days_61_90 |-> None,
            governance_and_review |-> None]
      [] OTHER ->
           [transformation_horizon |-> None, cadence |-> None,
            review_checkpoint |-> None]

ExtOf(p) ==
    IF p.extended_printable = None THEN EmptyExtended ELSE p.extended_printable[1]

\* the record with one field replaced
WithTop(p, f, v) == [p EXCEPT ![f] = v]

WithGf(p, f, v) ==
    LET o == IF p.generated_from = None THEN EmptyObject("generated_from")
             ELSE p.generated_from[1]
    IN  [p EXCEPT !.generated_from = Some([o EXCEPT ![f] = v])]

WithExt(p, f, v) ==
    [p EXCEPT !.extended_printable = Some([ExtOf(p) EXCEPT ![f] = v])]

WithExtSub(p, sub, f, v) ==
    LET o == IF ExtOf(p)[sub] = None THEN EmptyObject(sub) ELSE ExtOf(p)[sub][1]
    IN  WithExt(p, sub, Some([o EXCEPT ![f] = v]))

WithStep(p, i, f, v) == [p EXCEPT !.sequence[i][f] = v]

WithDetail(p, j, f, v) ==
    WithExt(p, "detailed_steps", Some([Details(p) EXCEPT ![j][f] = v]))

\* the document of another record, built with the same logo and date
Doc(q) == PlaybookPdfDocument(q, DocLogo, DocDate)

StepTextFields ==
    {"phase", "time_window", "intervention_duration", "owner",
     "success_signal", "challenge_title", "method_name"}

DetailTextFields ==
    {"objective", "deep_explanation", "facilitator_guidance",
     "practical_example", "risks_and_mitigations", "success_metrics"}

\* C6: for every optional free-text field a page builder reads, a value
\* made only of whitespace gives the same document as the field being
\* absent.
C6_BlankIsAbsent ==
    Rendered =>
        /\ \A f \in {"summary", "target_audience", "estimated_duration"} :
              Doc(WithTop(P, f, Blank)) = Doc(WithTop(P, f, None))
        /\ \A f \in {"transformation_horizon", "cadence", "review_checkpoint"} :
              Doc(WithGf(P, f, Blank)) = Doc(WithGf(P, f, None))
        /\ \A f \in {"title", "subtitle", "executive_summary"} :
              Doc(WithExt(P, f, Blank)) = Doc(WithExt(P, f, None))
        /\ \A f \in {"context", "stakes"} :
              Doc(WithExtSub(P, "challenge_analysis", f, Blank))
                  = Doc(WithExtSub(P, "challenge_analysis", f, None))
        /\ Doc(WithExtSub(P, "implementation_roadmap", "governance_and_review", Blank))
              = Doc(WithExtSub(P, "implementation_roadmap", "governance_and_review", None))
        /\ \A j \in 1..Len(Details(P)) : \A f \in DetailTextFields :
              Doc(WithDetail(P, j, f, Blank)) = Doc(WithDetail(P, j, f, None))
        /\ \A i \in 1..N : \A f \in StepTextFields :
              Doc(WithStep(P, i, f, Blank)) = Doc(WithStep(P, i, f, None))

---------------------------------------------------------------------------
(* C7: icon selection *)

\* the twelve keywords of the claim, in table order, with their icons
C7_Keywords == Tail(TOPIC_ICONS)

\* C7: the cover icon is the icon of the first of the twelve keywords
\* contained in the lower-cased trimmed category, and is the compass if and
\* only if none of them is contained in it.
C7_FirstKeywordWins ==
    Rendered =>
        LET key  == Trim(ToLowerCase(P.category))
            hits == {i \in 1..Len(C7_Keywords) : Includes(key, C7_Keywords[i][1])}
        IN  /\ (doc[1].icon = "compass") <=> (hits = {})
            /\ hits # {} =>
                  doc[1].icon = C7_Keywords[CHOOSE i \in hits : \A j \in hits : i <= j][2]

---------------------------------------------------------------------------
(* C8: sources *)

Sources(p) ==
    LET src == Get(p.extended_printable, "sources")
    IN  IF src = None THEN <<>> ELSE src[1]

\* the pages showing the "Research Sources" heading
SourceHeadings ==
    {<<i, b>> \in (1..Len(doc)) \X (1..30 + MaxSources) :
        /\ b <= Len(doc[i].body)
        /\ doc[i].body[b].text = Lit(<<"Research", "Sources">>)}

\* C8: without sources (absent or empty) the document has no "Research
\* Sources" heading and no citation line; with k >= 1 sources the heading
\* appears once, on the final page, followed by min(k, 20) citation lines:
\* those of the first min(k, 20) entries, in their order.
C8_SourcesFirstTwenty ==
    Rendered =>
        LET k     == Len(Sources(P))
            lines == SlotTexts(doc[Len(doc)].body, "source.line")
        IN  /\ \A i \in 1..(Len(doc) - 1) :
                  SlotTexts(doc[i].body, "source.line") = <<>>
            /\ k = 0 => SourceHeadings = {} /\ lines = <<>>
            /\ k >= 1 =>
                  /\ Cardinality(SourceHeadings) = 1
                  /\ \A h \in SourceHeadings : h[1] = Len(doc)
                  /\ Len(lines) = Min(k, 20)
                  /\ \A i \in 1..Len(lines) :
                        lines[i] = SourceLine(Sources(P)[i]).text

C8_Witness ==
    /\ Rendered
    /\ Len(Sources(P)) = 22
    /\ Len(SlotTexts(doc[Len(doc)].body, "source.line")) = 20
    /\ Includes(SlotTexts(doc[Len(doc)].body, "source.line")[20],
                <<"source.title", " ", "20">>)

---------------------------------------------------------------------------
(* C9: a fully populated extended block *)

Full(o) == Truthy(o) /\ NonBlank(o[1])

FullList(o) ==
    o # None /\ Len(o[1]) > 0 /\ \A i \in 1..Len(o[1]) : NonBlank(o[1][i])

FullExtended(p) ==
    LET ext == p.extended_printable
        ca  == Get(ext, "challenge_analysis")
        tf  == Get(ext, "theory_foundations")
        rm  == Get(ext, "implementation_roadmap")
        cta == Get(ext, "final_metodic_cta")
    IN  /\ ext # None
        /\ Full(ext[1].title) /\ Full(ext[1].subtitle)
        /\ Full(ext[1].executive_summary)
        /\ ca # None /\ Full(ca[1].context) /\ Full(ca[1].stakes)
        /\ FullList(ca[1].symptoms) /\ FullList(ca[1].root_causes)
        /\ tf # None /\ Len(tf[1]) > 0
        /\ \A i \in 1..Len(tf[1]) :
              Full(tf[1][i].concept) /\ Full(tf[1][i].explanation)
              /\ Full(tf[1][i].application)
        /\ \A k \in 1..Len(p.sequence) :
              \E j \in 1..Len(Details(p)) : Matches(Details(p)[j], p.sequence[k])
        /\ \A j \in 1..Len(Details(p)) :
              \A f \in DetailTextFields : Full(Details(p)[j][f])
        /\ rm # None /\ Full(rm[1].governance_and_review)
        /\ FullList(rm[1].first_30_days) /\ FullList(rm[1].days_31_60)
        /\ FullList(rm[1].days_61_90)
        /\ cta # None /\ Full(cta[1].why_metodic) /\ FullList(cta[1].benefits)
        /\ Len(Sources(p)) > 0
        /\ \A i \in 1..Len(Sources(p)) :
              \A f \in {"title", "url", "publisher", "relevance_note"} :
                  Full(Sources(p)[i][f])

\* the optional fields outside extended_printable that feed the document
OthersPopulated(p) ==
    /\ p.generated_from # None
    /\ \A f \in {"transformation_horizon", "cadence", "review_checkpoint"} :
          Full(p.generated_from[1][f])
    /\ Full(p.estimated_duration) /\ Full(p.target_audience)
    /\ \A k \in 1..Len(p.sequence) :
          /\ Truthy(p.sequence[k].phase)
          /\ \A f \in {"time_window", "owner", "challenge_title", "method_name"} :
                Full(p.sequence[k][f])

DefaultTexts ==
    {DefaultHorizon, DefaultCadence, DefaultCoverDuration, DefaultAudience,
     DefaultCheckpoint, DefaultExecutiveSummary, DefaultStepDuration,
     DefaultOwner, DefaultRisks, GenericPrepare, GenericClose,
     DefaultChallengeTitle, DefaultMethodName, DefaultSuccessSignal,
     DefaultWhyMetodic, DefaultSourceLabel, DefaultSourceUrl}
    \cup {l[i] : l \in {DefaultSymptoms, DefaultRootCauses, DefaultFirst30,
                        DefaultBenefits},
                 i \in 1..2}
    \cup {DefaultSymptoms[3], DefaultRootCauses[3], DefaultBenefits[3],
          Default31to60[1], Default61to90[1]}
    \cup {DefaultPrinciples[i][f][1] :
             i \in 1..3, f \in {"concept", "explanation", "application"}}

\* the item shows a hard-coded default of the page builders
ShowsDefault(item) ==
    \/ \E d \in DefaultTexts : Includes(item.text, d)
    \/ item.slot = "step.phase"
         /\ \E i \in 1..4 : item.text = <<PhaseByPosition[i]>>
    \/ item.slot \in {"step.timing", "principle.concept"}
         /\ Len(item.text) = 3
         /\ SubSeq(item.text, 1, 2) \in {<<"Week", " ">>, <<"Principle", " ">>}

\* the slots fed by extended_printable
ExtendedSlots ==
    {"cover.title", "cover.subtitle", "summary.text", "summary.context",
     "summary.symptom", "summary.root_cause", "summary.stakes",
     "principle.concept", "principle.explanation", "principle.application",
     "step.title", "step.goal", "step.script", "guidance.example",
     "guidance.risks", "guidance.generic", "step.success",
     "roadmap.first_30_days", "roadmap.days_31_60", "roadmap.days_61_90",
     "roadmap.governance", "cta.why", "cta.benefit", "source.line"}

Items(d) ==
    {d[i].body[b] : <<i, b>> \in
        {<<i, b>> \in (1..Len(d)) \X (1..30 + MaxSources) : b <= Len(d[i].body)}}

\* C9 as stated: with extended_printable fully populated the document
\* shows no default string, whatever the record's other optional fields.
C9_FullExtendedNoDefaults ==
    (Rendered /\ FullExtended(P)) =>
        \A item \in Items(doc) : ~ShowsDefault(item)

\* C9 amended: with extended_printable fully populated no slot fed by
\* extended_printable shows a default string; the whole document shows
\* none when generated_from's fields, estimated_duration, target_audience
\* and every step's phase, time_window, owner, challenge_title and
\* method_name are populated too.
C9_FullExtendedNoDefaultsInExtendedSlots ==
    (Rendered /\ FullExtended(P)) =>
        /\ \A item \in Items(doc) :
              item.slot \in ExtendedSlots => ~ShowsDefault(item)
        /\ OthersPopulated(P) => \A item \in Items(doc) : ~ShowsDefault(item)

C9_Witness ==
    /\ Rendered
    /\ FullExtended(P)
    /\ OthersPopulated(P)
    /\ N = 3
    /\ \A item \in Items(doc) : ~ShowsDefault(item)

---------------------------------------------------------------------------
(* C10: one outcome per request *)

\* C10: a request that reached the render ends with the complete document
\* in a 200 application/pdf response, or with one 500 error response
\* carrying no document content; nothing is sent before the handler
\* returns, no PDF leaves on a failed render, and a response once sent is
\* never followed by another.
C10_OneOutcome ==
    /\ [](/\ pc # "done" => response = NoResponse
          /\ renderErr => doc = <<>>
          /\ response.body # <<>> => response.status = 200 /\ ~renderErr
          /\ (pc = "done" /\ playbook # None) =>
                \/ /\ response.status = 200
                   /\ response.contentType = "application/pdf"
                   /\ ~renderErr
                   /\ response.body = doc
                   /\ Len(doc) = N + 5
                \/ /\ response.status = 500
                   /\ response.contentType = "application/json"
                   /\ renderErr
                   /\ response.body = <<>>)
    /\ [][response # NoResponse => response' = response]_vars

C10_Witness ==
    /\ pc = "done"
    /\ renderErr
    /\ response.status = 500
    /\ response.body = <<>>
    /\ doc = <<>>

---------------------------------------------------------------------------
(* C11: missing data never raises *)

\* no array of the record holds a null where an object is expected
WellFormed(p) ==
    LET ext == p.extended_printable
        ok(list) == list = None \/ \A i \in 1..Len(list[1]) : list[1][i] # Null
    IN  /\ \A i \in 1..Len(p.sequence) : p.sequence[i] # Null
        /\ ok(Get(ext, "theory_foundations"))
        /\ ok(Get(ext, "detailed_steps"))
        /\ ok(Get(ext, "sources"))

\* the slots every page of its kind fills, from a value or from a fallback
FilledSlots(kind) ==
    CASE kind = "cover" ->
           {"cover.title", "cover.subtitle", "chip.horizon", "chip.cadence",
            "chip.duration", "info.audience", "info.checkpoint"}
      [] kind = "summary" ->
           {"summary.text", "summary.context", "summary.symptom",
            "summary.root_cause"}
      [] kind = "principles" -> {"principle.concept", "principle.explanation"}
      [] kind = "step" ->
           {"step.title", "step.phase", "step.timing", "step.duration",
            "step.owner", "step.goal", "step.script", "context.challenge",
            "context.method", "step.success"}
      [] kind = "roadmap" ->
           {"roadmap.first_30_days", "roadmap.days_31_60", "roadmap.days_61_90"}
      [] OTHER -> {"cta.why", "cta.benefit"}

\* some optional field of the record is absent or null
SomethingMissing(p) ==
    \/ p.summary = None \/ p.target_audience = None
    \/ p.estimated_duration = None
    \/ p.generated_from = None \/ p.extended_printable = None
    \/ \E f \in {"transformation_horizon", "cadence", "review_checkpoint"} :
          Get(p.generated_from, f) = None
    \/ \E f \in {"title", "subtitle", "executive_summary", "challenge_analysis",
                 "theory_foundations", "detailed_steps",
                 "implementation_roadmap", "final_metodic_cta", "sources"} :
          Get(p.extended_printable, f) = None
    \/ \E i \in 1..Len(p.sequence) :
          \E f \in {"phase", "time_window", "intervention_duration", "owner",
                    "success_signal", "challenge_title", "method_name"} :
             p.sequence[i][f] = None

---------------------------------------------------------------------------
(* C12: the logo file cannot be read *)

\* a document with its logo references taken out
WithoutLogos(d) == [k \in 1..Len(d) |-> [d[k] EXCEPT !.logos = <<>>]]

\* C12: a render whose logo read failed still yields the document; its
\* logo reference is the remote URL https://metodic.io/metodic-logo.png
\* (otherwise the embedded file), every page carries a logo, every logo of
\* the document is that one reference, and but for the logos the pages
\* are those of the render whose read succeeded.
C12_LogoFallback ==
    Rendered =>
        /\ DocLogo \in {"data:image/png;base64",
                        "https://metodic.io/metodic-logo.png"}
        /\ \A k \in 1..Len(doc) :
              /\ doc[k].logos # <<>>
              /\ \A i \in 1..Len(doc[k].logos) : doc[k].logos[i] = DocLogo
        /\ DocLogo = "https://metodic.io/metodic-logo.png" =>
              WithoutLogos(doc)
              = WithoutLogos(PlaybookPdfDocument(P, getLogoDataUri(TRUE), DocDate))

\* the read failed and the document has step pages
C12_Witness ==
    /\ Rendered
    /\ logoReads = 1
    /\ N >= 2
    /\ DocLogo = "https://metodic.io/metodic-logo.png"
    /\ doc[Len(doc)].logos = <<DocLogo, DocLogo>>

---------------------------------------------------------------------------
(* C13: the document is a function of its inputs *)

---------------------------------------------------------------------------
(* C14: rendering is read-only over its input *)

\* C14: across the call of renderPlaybookPdf, whether it returns or
\* raises, the playbook record (with its sequence and its extended block)
\* and the row it was read from stay what they were.
C14_InputUnchanged ==
    [][(pc = "looked" /\ pc' = "rendered") => (playbook' = playbook /\ row' = row)]_vars

\* a record with more sources than the document lists has been rendered,
\* and it still is the row as getPlaybook returned it
C14_Witness ==
    /\ Rendered
    /\ Len(Sources(P)) > SourceLimit
    /\ Len(SlotTexts(doc[Len(doc)].body, "source.line")) = SourceLimit
    /\ playbook = getPlaybook(row, FALSE)

---------------------------------------------------------------------------
(* C15: the optional values of the cover *)

\* an optional text is present: neither null, empty nor all whitespace
Present(value) == value # None /\ NonBlank(value[1])

\* a slot shows the value itself (whitespace normalised) when it is
\* present, and otherwise exactly the default
ShowsOwnOrDefault(page, slot, value, default) ==
    SlotTexts(page.body, slot) =
        << IF Present(value) THEN Trim(Collapse(value[1])) ELSE default >>

\* C15: the cover shows the transformation horizon, the cadence, the
\* estimated duration, the audience and the review checkpoint: each its
\* own value when present, else "6-10 weeks", "weekly cadence",
\* "45-90 min per session", "Leaders and facilitators" and "Week 4"; with
\* generated_from null the three generated_from slots show their defaults.
C15_CoverDefaults ==
    Rendered =>
        LET gf == P.generated_from
        IN  /\ ShowsOwnOrDefault(doc[1], "chip.horizon",
                   Get(gf, "transformation_horizon"), <<"6-10", " ", "weeks">>)
            /\ ShowsOwnOrDefault(doc[1], "chip.cadence",
                   Get(gf, "cadence"), <<"weekly", " ", "cadence">>)
            /\ ShowsOwnOrDefault(doc[1], "chip.duration",
                   P.estimated_duration,
                   <<"45-90", " ", "min", " ", "per", " ", "session">>)
            /\ ShowsOwnOrDefault(doc[1], "info.audience",
                   P.target_audience,
                   <<"Leaders", " ", "and", " ", "facilitators">>)
            /\ ShowsOwnOrDefault(doc[1], "info.checkpoint",
                   Get(gf, "review_checkpoint"), <<"Week", " ", "4">>)
            /\ gf = None =>
                  /\ SlotText(doc[1], "chip.horizon") = <<"6-10", " ", "weeks">>
                  /\ SlotText(doc[1], "chip.cadence") = <<"weekly", " ", "cadence">>
                  /\ SlotText(doc[1], "info.checkpoint") = <<"Week", " ", "4">>

\* generated_from is null and the estimated duration is set: the cover
\* mixes three defaults with a value of the record
C15_Witness ==
    /\ Rendered
    /\ P.generated_from = None
    /\ Present(P.estimated_duration)
    /\ P.target_audience = None
    /\ SlotText(doc[1], "chip.horizon") = <<"6-10", " ", "weeks">>
    /\ SlotText(doc[1], "chip.duration") = Trim(Collapse(P.estimated_duration[1]))
    /\ SlotText(doc[1], "info.audience") = <<"Leaders", " ", "and", " ", "facilitators">>

---------------------------------------------------------------------------
(* C16: the meta strip of a step page *)

\* the text is the value, as stored or whitespace normalised
IsValue(text, value) == text = value[1] \/ text = Trim(Collapse(value[1]))

\* C16: on the page of the step at 0-based index i, Timing is the step's
\* time_window when present, else "Week {i+1}"; Duration is the step's
\* intervention_duration when present, else the playbook's
\* estimated_duration when present, else "45-90 min"; Owner is the step's
\* owner when present, else "Session lead".
C16_MetaStrip ==
    Rendered =>
        \A k \in 1..N :
           LET step == P.sequence[k]     \* k = i + 1
               page == StepPageAt(k)
           IN  /\ ShowsOwnOrDefault(page, "step.timing", step.time_window,
                                    <<"Week", " ", ToString(k)>>)
               /\ IF Present(step.intervention_duration)
                  THEN SlotText(page, "step.duration")
                       = Trim(Collapse(step.intervention_duration[1]))
                  ELSE IF Present(P.estimated_duration)
                  THEN IsValue(SlotText(page, "step.duration"), P.estimated_duration)
                  ELSE SlotText(page, "step.duration") = <<"45-90", " ", "min">>
               /\ ShowsOwnOrDefault(page, "step.owner", step.owner,
                                    <<"Session", " ", "lead">>)

---------------------------------------------------------------------------
(* C17: whitespace of the free texts shown *)

\* no whitespace at either end and no two whitespace characters in a row
Normalised(text) ==
    \A i \in 1..Len(text) :
       text[i] \in WhiteSpace =>
          /\ i # 1
          /\ i # Len(text)
          /\ text[i + 1] \notin WhiteSpace

\* the slots of the free texts the claim names: title, subtitle, challenge
\* context, step title, duration, goal, script, success signal, source line
FreeTextSlots ==
    {"cover.title", "cover.subtitle", "summary.context", "step.title",
     "step.duration", "step.goal", "step.script", "step.success",
     "source.line"}

\* C17: every free text the document shows, whether it comes from an
\* extended field, a base field or a fallback chain, is whitespace
\* normalised: trimmed, and without a run of two or more whitespace
\* characters.
C17_FreeTextNormalised ==
    Rendered =>
        \A item \in Items(doc) :
           item.slot \in FreeTextSlots => Normalised(item.text)

---------------------------------------------------------------------------
(* C18: the cards of the roadmap page *)

RoadmapOf(p) == Get(p.extended_printable, "implementation_roadmap")

\* the roadmap page of the document in hand
RoadmapDoc == doc[Len(doc) - 1]

NonEmptyList(items) == items # None /\ items[1] # <<>>

\* the page has the three cards in the order Days 1-30, 31-60, 61-90,
\* each card directly followed by its bullets b1, b2, b3
ThreeCards(page, b1, b2, b3) ==
    LET rows(slot, list) == [i \in 1..Len(list) |-> Item(slot, list[i])]
        cards ==
            << Item("roadmap.card", <<"Days", " ", "1", " ", "&ndash;", " ", "30">>) >>
            \o rows("roadmap.first_30_days", b1)
            \o << Item("roadmap.card", <<"Days", " ", "31", " ", "&ndash;", " ", "60">>) >>
            \o rows("roadmap.days_31_60", b2)
            \o << Item("roadmap.card", <<"Days", " ", "61", " ", "&ndash;", " ", "90">>) >>
            \o rows("roadmap.days_61_90", b3)
        first == CHOOSE i \in 1..Len(page.body) : page.body[i].slot = "roadmap.card"
    IN  /\ Len(page.body) >= first + Len(cards) - 1
        /\ SubSeq(page.body, first, first + Len(cards) - 1) = cards
        /\ \A i \in 1..Len(page.body) :
              page.body[i].slot \in {"roadmap.card", "roadmap.first_30_days",
                                     "roadmap.days_31_60", "roadmap.days_61_90"}
              => i \in first..(first + Len(cards) - 1)

\* C18 as stated: three cards in order; the bullets of each are the
\* extended-roadmap array when it is non-empty, and otherwise one
\* default sentence.
C18_RoadmapOneSentenceDefaults ==
    Rendered =>
        LET rm == RoadmapOf(P)
            shown(slot) == SlotTexts(RoadmapDoc.body, slot)
            from(items, slot) ==
                IF NonEmptyList(items) THEN items[1] ELSE shown(slot)
            oneSentence(items, slot) ==
                NonEmptyList(items) \/ Len(shown(slot)) = Len(<<"sentence">>)
        IN  /\ RoadmapDoc.kind = "roadmap"
            /\ ThreeCards(RoadmapDoc,
                          from(Get(rm, "first_30_days"), "roadmap.first_30_days"),
                          from(Get(rm, "days_31_60"), "roadmap.days_31_60"),
                          from(Get(rm, "days_61_90"), "roadmap.days_61_90"))
            /\ oneSentence(Get(rm, "first_30_days"), "roadmap.first_30_days")
            /\ oneSentence(Get(rm, "days_31_60"), "roadmap.days_31_60")
            /\ oneSentence(Get(rm, "days_61_90"), "roadmap.days_61_90")

\* C18 amended: three cards in order; the bullets of each are the
\* extended-roadmap array when it is non-empty, and otherwise the default
\* list of the range: two sentences for Days 1-30, one sentence for Days
\* 31-60 and one for Days 61-90.
C18_RoadmapDefaults ==
    Rendered =>
        LET rm == RoadmapOf(P)
            from(items, default) == IF NonEmptyList(items) THEN items[1] ELSE default
        IN  /\ RoadmapDoc.kind = "roadmap"
            /\ ThreeCards(RoadmapDoc,
                 from(Get(rm, "first_30_days"),
                      << <<"Define", " ", "the", " ", "playbook", " ", "owner", " ",
                           "and", " ", "facilitation", " ", "support", " ", "roles.">>,
                         <<"Schedule", " ", "all", " ", "interventions", " ", "with",
                           " ", "a", " ", "clear", " ", "cadence.">> >>),
                 from(Get(rm, "days_31_60"),
                      << <<"Track", " ", "success", " ", "signals", " ", "per", " ",
                           "intervention", " ", "and", " ", "resolve", " ",
                           "blockers", " ", "quickly.">> >>),
                 from(Get(rm, "days_61_90"),
                      << <<"Run", " ", "checkpoint", " ", "review", " ", "and", " ",
                           "adapt", " ", "the", " ", "next", " ", "intervention",
                           " ", "cycle.">> >>))

\* one range comes from the record and another, its array empty, shows
\* its default
C18_Witness ==
    /\ Rendered
    /\ NonEmptyList(Get(RoadmapOf(P), "first_30_days"))
    /\ SlotTexts(RoadmapDoc.body, "roadmap.first_30_days")
       = Get(RoadmapOf(P), "first_30_days")[1]
    /\ Get(RoadmapOf(P), "days_31_60") = Some(<<>>)
    /\ Len(SlotTexts(RoadmapDoc.body, "roadmap.days_31_60")) = Len(<<"sentence">>)

---------------------------------------------------------------------------
(* C19: the Execution Guidance column *)

\* the items of a page between the headings from and to
Between(page, from, to) ==
    LET at(h) == CHOOSE i \in 1..Len(page.body) :
                    page.body[i] = Item("heading", h)
    IN  SubSeq(page.body, at(from) + 1, at(to) - 1)

\* C19: under "Execution Guidance", a step whose matched detail has a
\* practical_example shows the example and then the detail's
\* risks_and_mitigations, or the fixed mitigation sentence when the detail
\* has no risks; any other step shows exactly the two generic sentences
\* and no risks_and_mitigations.  "Applied Context" follows in both cases.
C19_ExecutionGuidance ==
    Rendered =>
        \A k \in 1..N :
           LET page    == StepPageAt(k)
               detail  == FindDetail(P.extended_printable, P.sequence[k], k - 1)
               example == Get(detail, "practical_example")
               risks   == Get(detail, "risks_and_mitigations")
               column  == Between(page, <<"Execution", " ", "Guidance">>,
                                        <<"Applied", " ", "Context">>)
           IN  /\ \E i \in 1..Len(page.body) :
                     page.body[i] = Item("heading", <<"Applied", " ", "Context">>)
               /\ SlotTexts(page.body, "context.challenge") # <<>>
               /\ SlotTexts(page.body, "context.method") # <<>>
               /\ IF Present(example)
                  THEN /\ Len(column) = Len(<<"example", "risks">>)
                       /\ column[1].slot = "guidance.example"
                       /\ \/ column[1].text = <<"Example:", " ">> \o example[1]
                          \/ column[1].text
                             = <<"Example:", " ">> \o Trim(Collapse(example[1]))
                       /\ column[2] =
                             Item("guidance.risks",
                                  <<"Risks", " ", "+", " ", "mitigations:", " ">>
                                  \o (IF Present(risks)
                                      THEN Trim(Collapse(risks[1]))
                                      ELSE <<"Track", " ", "blockers", " ",
                                             "immediately", " ", "and", " ",
                                             "assign", " ", "one", " ",
                                             "mitigation", " ", "owner.">>))
                  ELSE /\ Len(column) = Len(<<"prepare", "close">>)
                       /\ \A i \in 1..Len(column) :
                             /\ column[i].slot = "guidance.generic"
                             /\ column[i].text \in {GenericPrepare, GenericClose}
                       /\ column[1] # column[2]

---------------------------------------------------------------------------
(* C20: the two sections without a default *)

\* the page shows the heading
HasHeading(page, slot, words) ==
    \E i \in 1..Len(page.body) : page.body[i] = Item(slot, words)

\* C20: the summary page shows the heading "Why It Matters" and the
\* stakes paragraph exactly when challenge_analysis.stakes is present, and
\* the roadmap page shows the "Governance and Review" box exactly when
\* implementation_roadmap.governance_and_review is present; when the text
\* is absent neither a heading nor a paragraph is put in its place.
C20_SectionsWithoutDefault ==
    Rendered =>
        LET stakes == Get(Get(P.extended_printable, "challenge_analysis"), "stakes")
            governance == Get(RoadmapOf(P), "governance_and_review")
        IN  /\ Present(stakes) <=>
                  HasHeading(doc[2], "heading.stakes", <<"Why", " ", "It", " ", "Matters">>)
            /\ IF Present(stakes)
               THEN \E t \in {stakes[1], Trim(Collapse(stakes[1]))} :
                       SlotTexts(doc[2].body, "summary.stakes") = <<t>>
               ELSE SlotTexts(doc[2].body, "summary.stakes") = <<>>
            /\ Present(governance) <=>
                  HasHeading(RoadmapDoc, "heading.governance",
                             <<"Governance", " ", "and", " ", "Review">>)
            /\ IF Present(governance)
               THEN \E t \in {governance[1], Trim(Collapse(governance[1]))} :
                       SlotTexts(RoadmapDoc.body, "roadmap.governance") = <<t>>
               ELSE SlotTexts(RoadmapDoc.body, "roadmap.governance") = <<>>

---------------------------------------------------------------------------
(* C21: header and page numbers *)

\* the layouts looked at: no page overflows, or one page takes up to
\* MaxExtraSheets more sheets
Layouts(d) ==
    {[k \in 1..Len(d) |-> IF k = w THEN n ELSE 0] :
        w \in 1..Len(d), n \in 0..MaxExtraSheets}

---------------------------------------------------------------------------
(* C22: icon selection ignores case and surrounding whitespace *)

\* C22: the icon on the cover is the icon of the category upper-cased,
\* lower-cased, and padded with whitespace on both sides; "Team
\* Collaboration Workshop" in any casing has the collaboration icon and
\* "Quarterly Review" the compass.
C22_IconIgnoresCaseAndPadding ==
    Rendered =>
        /\ \A how \in {"upper", "lower", "padded"} :
              /\ pickIcon(Recase(how, P.category)) = doc[1].icon
              /\ pickIcon(Recase("padded", Recase(how, P.category))) = doc[1].icon
        /\ ToLowerCase(P.category) = ToLowerCase(TeamCollaborationWorkshop) =>
              \A how \in {"asis", "upper", "lower", "padded"} :
                 pickIcon(Recase(how, P.category)) = "users"
        /\ Trim(ToLowerCase(P.category))
           = <<"q","u","a","r","t","e","r","l","y"," ","r","e","v","i","e","w">> =>
              doc[1].icon = "compass"

\* a category in mixed case with a keyword in it, whose upper-cased form
\* differs from it, shows the keyword's icon
C22_Witness ==
    /\ Rendered
    /\ P.category = TeamCollaborationWorkshop
    /\ Recase("upper", P.category) # P.category
    /\ doc[1].icon = "users"
    /\ pickIcon(Recase("upper", P.category)) = "users"

---------------------------------------------------------------------------
(* C23: the counts of steps agree *)

IsStepPage(page) == page.kind = "step"

\* C23: the Interventions value of the cover, the N of every "Step i of N"
\* label and the number of step pages all are the length of the sequence,
\* and the i of the labels runs 1, 2, ..., N in page order, whatever the
\* order fields of the steps.
C23_StepCountsAgree ==
    Rendered =>
        LET stepPages == SelectSeq(doc, IsStepPage)
            shown     == SlotTexts(doc[1].body, "info.interventions")
        IN  /\ shown = << <<ToString(Len(P.sequence))>> >>
            /\ Len(stepPages) = Len(P.sequence)
            /\ \A i \in 1..Len(stepPages) :
                  stepPages[i].sectionLabel
                  = <<"Step", " ", ToString(i), " ", "of", " ">> \o shown[1]

\* three steps whose order fields are neither 1, 2, 3 nor distinct
C23_Witness ==
    /\ Rendered
    /\ N = Len(<<"a", "b", "c">>)
    /\ P.sequence[1].order = P.sequence[2].order
    /\ P.sequence[3].order < P.sequence[1].order
    /\ SlotText(doc[1], "info.interventions") = <<ToString(N)>>
    /\ doc[Len(doc) - 2].sectionLabel
       = <<"Step", " ", ToString(N), " ", "of", " ", ToString(N)>>

---------------------------------------------------------------------------
(* C24: one read of the logo per render *)

\* C24: the logo asset is read in the render step only and at most once;
\* a render that has built a document has read it exactly once, and every
\* image of every page of that document carries the one reference the
\* read gave (the embedded file or the remote URL), never both.
C24_OneLogoRead ==
    /\ [](/\ logoReads <= Len(<<"read">>)
          /\ pc \in {"start", "looked"} => logoReads = 0
          /\ doc # <<>> =>
                /\ logoReads = Len(<<"read">>)
                /\ \E readOk \in BOOLEAN :
                      \A k \in 1..Len(doc) :
                         \A i \in 1..Len(doc[k].logos) :
                            doc[k].logos[i] = getLogoDataUri(readOk))
    /\ [][logoReads' # logoReads =>
             /\ pc = "looked" /\ pc' = "rendered"
             /\ logoReads' = logoReads + 1]_vars

\* the read succeeded: the final page shows the embedded file twice
C24_Witness ==
    /\ Rendered
    /\ logoReads = 1
    /\ N >= 1
    /\ doc[Len(doc)].logos = <<getLogoDataUri(TRUE), getLogoDataUri(TRUE)>>
    /\ doc[1].logos = <<getLogoDataUri(TRUE)>>

---------------------------------------------------------------------------
(* C25: details of the same step_order *)

\* the detail at position j matches the step, and so does an earlier one
LaterDuplicate(p, j, step) ==
    /\ Matches(Details(p)[j], step)
    /\ \E j0 \in 1..(j - 1) : Matches(Details(p)[j0], step)

\* the first detail matching the step
FirstMatch(p, step) ==
    Details(p)[CHOOSE j \in 1..Len(Details(p)) :
                  /\ Matches(Details(p)[j], step)
                  /\ \A j0 \in 1..(j - 1) : ~Matches(Details(p)[j0], step)]

\* C25: when several details carry the step_order of a step, the page of
\* the step shows no field of any but the first of them; a field the
\* first lacks is filled from the step itself (or its default), not from
\* a later detail.
C25_FirstDuplicateOnly ==
    Rendered =>
        \A k \in 1..N :
           LET step == P.sequence[k]
               page == StepPageAt(k)
           IN  /\ \A j \in 1..Len(Details(P)) :
                     LaterDuplicate(P, j, step) =>
                        \A b \in 1..Len(page.body) :
                           ~FromDetail(page.body[b].text, j)
               /\ (\E j \in 1..Len(Details(P)) : LaterDuplicate(P, j, step)) =>
                     LET first == FirstMatch(P, step)
                     IN  /\ ~Present(first.objective) =>
                               SlotText(page, "step.title") = step.title
                         /\ ~Present(first.deep_explanation) =>
                               SlotText(page, "step.goal") = step.intervention
                         /\ ~Present(first.facilitator_guidance) =>
                               SlotText(page, "step.script") = step.script_template
                         /\ ~Present(first.success_metrics) =>
                               SlotText(page, "step.success")
                               = OrElse(step.success_signal, DefaultSuccessSignal)
                         /\ first.practical_example = None =>
                               SlotTexts(page.body, "guidance.example") = <<>>
                         /\ (Present(first.practical_example)
                             /\ ~Present(first.risks_and_mitigations)) =>
                               SlotText(page, "guidance.risks")
                               = <<"Risks", " ", "+", " ", "mitigations:", " ">>
                                 \o DefaultRisks

\* two details of the order of step 1; the first has no objective, the
\* second has one, and the page shows the title of the step
C25_Witness ==
    /\ Rendered
    /\ N >= 1
    /\ Len(Details(P)) >= 2
    /\ LaterDuplicate(P, 2, P.sequence[1])
    /\ Details(P)[1].objective = None
    /\ Present(Details(P)[2].objective)
    /\ SlotText(StepPageAt(1), "step.title") = P.sequence[1].title

---------------------------------------------------------------------------
(* C26: the order of lookup, render and response *)

\* the render call has been made (it resolved or rejected)
RenderCalled == pc = "rendered" \/ doc # <<>> \/ renderErr \/ logoReads > 0

\* C26: the render is called only once the lookup has returned a record,
\* which is the row found; a lookup that failed or found no row is
\* answered 404 with no render; a render that raised is answered 500; a
\* 200 application/pdf response is sent only after the render returned.
C26_LookupThenRenderThenRespond ==
    /\ [](/\ RenderCalled =>
                /\ playbook # None
                /\ row # None
                /\ playbook = getPlaybook(row, FALSE)
          /\ pc = "start" => ~RenderCalled /\ playbook = None
          /\ (pc = "done" /\ playbook = None) =>
                /\ response.status = 404
                /\ response.contentType = "application/json"
                /\ ~RenderCalled
          /\ (pc = "done" /\ row = None) => response.status = 404
          /\ (pc = "done" /\ renderErr) => response.status = 500
          /\ response.status = 500 => renderErr
          /\ response.status = 404 => playbook = None
          /\ (response.status = 200
              /\ response.contentType = "application/pdf") =>
                /\ RenderCalled
                /\ ~renderErr
                /\ doc # <<>>
                /\ response.body = doc)
    /\ [][/\ (RenderCalled' /\ ~RenderCalled) => (pc = "looked" /\ playbook # None)
          /\ (response' # response /\ response'.status = 200) =>
                (pc = "rendered" /\ ~renderErr /\ doc' = doc)
          /\ (response' # response /\ response'.status = 404) =>
                (pc = "looked" /\ playbook = None)]_vars

\* a row exists, the lookup reported an error, and the request was
\* answered 404 with no render
C26_Witness ==
    /\ pc = "done"
    /\ row # None
    /\ playbook = None
    /\ response.status = 404
    /\ ~RenderCalled

---------------------------------------------------------------------------
(* C27: the printable page and the PDF agree on detail and phase *)

\* both renderers have produced their output for the record
BothRendered == Rendered /\ html # None /\ html[1].status = "ok"

\* C27: for every record and every step index, the section of the HTML
\* page and the page of the PDF read the same detail (the first whose
\* step_order equals the step's order, or none) and show the same phase
\* label.
C27_HtmlAndPdfAgree ==
    BothRendered =>
        /\ Len(html[1].sections) = N
        /\ \A k \in 1..N :
              LET section == html[1].sections[k]
                  step    == P.sequence[k]
              IN  /\ section.detail = FindDetail(P.extended_printable, step, k - 1)
                  /\ section.phase
                     = <<"Phase:", " ">> \o SlotText(StepPageAt(k), "step.phase")
                  /\ section.key = StepPageAt(k).key

\* a step without a phase whose order differs from its position, and a
\* step matched by two details, rendered both ways
C27_Witness ==
    /\ BothRendered
    /\ N >= 2
    /\ \/ /\ P.sequence[1].phase = None
          /\ P.sequence[1].order # 1
          /\ html[1].sections[1].phase = <<"Phase:", " ", "Diagnose">>
       \/ /\ Len(Details(P)) >= 2
          /\ LaterDuplicate(P, 2, P.sequence[1])
          /\ html[1].sections[1].detail = Some(Details(P)[1])

---------------------------------------------------------------------------
(* C28: the form validates before it inserts *)

\* the text has a character that is not whitespace
NonEmptyTrimmed(text) == \E i \in 1..Len(text) : text[i] \notin WhiteSpace

\* the text without its leading and trailing whitespace
Stripped(text) ==
    IF ~NonEmptyTrimmed(text) THEN <<>>
    ELSE LET inked == {i \in 1..Len(text) : text[i] \notin WhiteSpace}
             first == CHOOSE i \in inked : \A k \in inked : i <= k
             last  == CHOOSE i \in inked : \A k \in inked : i >= k
         IN  SubSeq(text, first, last)

\* local@domain.tld: one "@" after at least one character, no whitespace,
\* and after the "@" a "." with a character on either side of it
MatchesAddressPattern(address) ==
    LET ats == {i \in 1..Len(address) : address[i] = "@"}
    IN  /\ Cardinality(ats) = 1
        /\ \A i \in 1..Len(address) : address[i] \notin WhiteSpace
        /\ \A at \in ats :
              /\ at > 1
              /\ \E dot \in (at + 2)..(Len(address) - 1) : address[dot] = "."

\* the fields as the form holds them pass every check
FormValid ==
    /\ NonEmptyTrimmed(firstName)
    /\ NonEmptyTrimmed(lastName)
    /\ NonEmptyTrimmed(email)
    /\ MatchesAddressPattern(ToLowerCase(Stripped(email)))

\* the message of the first check the fields fail
FirstFailure ==
    IF ~NonEmptyTrimmed(firstName) THEN EnterFirstName
    ELSE IF ~NonEmptyTrimmed(lastName) THEN EnterLastName
    ELSE IF ~NonEmptyTrimmed(email) THEN EnterEmail
    ELSE EnterValidEmail

\* C28: an insert is in flight only for fields that pass every check, and
\* carries the trimmed names and the trimmed, lower-cased address; a
\* submission of fields that fail a check sends nothing, leaves loading
\* false and sets the one error message of the first failing check, in
\* the order first name, last name, empty email, invalid email.
C28_InsertOnlyWhenValid ==
    /\ [](/\ request # None =>
                /\ FormValid
                /\ formPc = "awaiting"
                /\ loading
                /\ request[1] = [email      |-> ToLowerCase(Stripped(email)),
                                 first_name |-> Stripped(firstName),
                                 last_name  |-> Stripped(lastName)]
          /\ formPc = "returned" =>
                /\ ~FormValid
                /\ request = None
                /\ ~loading
                /\ messageType = "error"
                /\ message = FirstFailure)
    /\ [][/\ (~FormValid /\ ~loading) => (request' = None /\ ~loading')
          /\ (request' # None /\ request = None) => (FormValid /\ ~loading)
          /\ (FormValid /\ ~loading /\ message' # message) => request' # None]_vars

\* both names filled in and an address whose domain starts with its dot:
\* submitted, refused with the last of the four messages
C28_Witness ==
    /\ formPc = "returned"
    /\ NonEmptyTrimmed(firstName)
    /\ NonEmptyTrimmed(lastName)
    /\ Stripped(email) = <<"A", "@", ".", "A">>
    /\ Len(email) > Len(Stripped(email))
    /\ message = EnterValidEmail
    /\ request = None
    /\ ~loading

---------------------------------------------------------------------------
(* C29: every insert ends with loading false and one message *)

OutcomeMessages == {OnTheList, AlreadyOnTheList, CouldNotAdd}

\* C29: after a submission that issued an insert, loading returns to
\* false and one outcome message is shown, however the insert ends; the
\* fields are cleared only when the insert succeeded, and the messages of
\* success and of a duplicate key are shown as successes.
C29_LoadingEndsWithOneOutcome ==
    /\ (formPc = "awaiting") ~> (~loading /\ message \in OutcomeMessages)
    /\ [](formPc \in {"settled", "aborted"} =>
             /\ ~loading
             /\ message \in OutcomeMessages
             /\ message \in {OnTheList, AlreadyOnTheList} <=> messageType = "success"
             /\ message = CouldNotAdd <=> messageType = "error")
    /\ [][formPc = "awaiting" =>
             /\ <<firstName', lastName', email'>> # <<firstName, lastName, email>> =>
                   /\ message' = OnTheList
                   /\ <<firstName', lastName', email'>> = <<<<>>, <<>>, <<>>>>
             /\ message' = OnTheList =>
                   <<firstName', lastName', email'>> = <<<<>>, <<>>, <<>>>>]_vars

=============================================================================
